---- MODULE Spec2Model ----
(***************************************************************************)
(* A model of arimo.data: the partitioned-Parquet distributed data frame   *)
(* (S3ParquetDistributedDataFrame, src/arimo/data/distributed_parquet.py)  *)
(* and the profiling mix-in (AbstractDataHandler,                          *)
(* src/arimo/data/__init__.py).                                            *)
(*                                                                         *)
(* Paths and partition sub-paths are sequences of one-character strings,    *)
(* so that os.path.join / dirname / basename, the slicing                   *)
(* piecePath[len(path) + 1:], substring tests and string comparison are    *)
(* computed the way the code computes them.                                *)
(*                                                                         *)
(* An engine frame (a Spark DataFrame) is modelled symbolically: the path  *)
(* it was loaded from and the sequence of operations applied since.        *)
(*                                                                         *)
(* Only the file-system branch of the storage code is modelled; the        *)
(* object-storage branch performs the same copies with bucket-relative     *)
(* keys.  Methods are modelled as called without inplace=True.             *)
(***************************************************************************)
EXTENDS Integers, Sequences, FiniteSets, TLC

\* --------------------------------------------------------------- bounds

\* Longest sequence of calls made in one behaviour.
MaxCalls == 3

\* Calls of _pieceADF that may follow once MaxCalls calls are made.
ExtraPieceCalls == 1

\* Longest engine-native transform chain a handle may carry.
MaxChain == 2

\* Largest sample size n passed to sample().
MaxN == 5

\* Largest minNPieces / maxNPieces passed to sample().
MaxNPiecesArg == 2

\* Constructions one thread makes when constructions run concurrently.
MaxRaceCtors == 2

\* Largest weight, and most weights, passed to split().
MaxWeight == 2

MaxWeights == 3

\* Rows held by every partition file of the modelled storage.
RowsPerPiece == 3

\* AbstractS3ParquetDataHandler._REPR_SAMPLE_MIN_N_PIECES, the default of
\* the constructor's reprSampleMinNPieces (line 63); its value is set
\* outside the modelled files.
ReprSampleMinNPieces == 2

\* ------------------------------------------------------- strings, paths

Min(a, b) == IF a < b THEN a ELSE b

Max(a, b) == IF a > b THEN a ELSE b

\* Code points of the characters the modelled storage uses.
OrdTable ==
    ("/" :> 47) @@
    ("0" :> 48) @@ ("1" :> 49) @@ ("2" :> 50) @@ ("3" :> 51) @@ ("4" :> 52) @@
    ("5" :> 53) @@ ("6" :> 54) @@ ("7" :> 55) @@ ("8" :> 56) @@ ("9" :> 57) @@
    ("=" :> 61) @@
    ("B" :> 66) @@ ("D" :> 68) @@ ("E" :> 69) @@ ("P" :> 80) @@ ("T" :> 84) @@
    ("a" :> 97) @@ ("d" :> 100) @@ ("e" :> 101) @@ ("f" :> 102) @@ ("g" :> 103) @@
    ("i" :> 105) @@ ("k" :> 107) @@ ("t" :> 116) @@ ("u" :> 117) @@ ("z" :> 122)

Ord(c) == OrdTable[c]

\* Python's str < str: lexicographic by code point, a proper prefix first.
RECURSIVE StrLess(_, _)
StrLess(a, b) ==
    IF b = <<>> THEN FALSE
    ELSE IF a = <<>> THEN TRUE
    ELSE IF Ord(Head(a)) < Ord(Head(b)) THEN TRUE
    ELSE IF Ord(Head(a)) > Ord(Head(b)) THEN FALSE
    ELSE StrLess(Tail(a), Tail(b))

\* str.startswith
StartsWith(s, pre) ==
    Len(pre) <= Len(s) /\ SubSeq(s, 1, Len(pre)) = pre

\* The positions at which sub occurs in s.
Occurrences(s, sub) ==
    {i \in 1..(Len(s) - Len(sub) + 1) : SubSeq(s, i, i + Len(sub) - 1) = sub}

\* sub in s
Contains(s, sub) == Occurrences(s, sub) # {}

\* s.count('/')
CountSlash(s) == Cardinality({i \in 1..Len(s) : s[i] = "/"})

\* Position of the last '/' of p, 0 when there is none.
LastSlash(p) ==
    LET at == {i \in 1..Len(p) : p[i] = "/"}
    IN  IF at = {} THEN 0 ELSE CHOOSE i \in at : \A j \in at : j <= i

\* os.path.dirname for the relative, single-slash paths of the model.
Dirname(p) ==
    IF LastSlash(p) = 0 THEN <<>> ELSE SubSeq(p, 1, LastSlash(p) - 1)

\* os.path.basename
Basename(p) == SubSeq(p, LastSlash(p) + 1, Len(p))

\* os.path.join(a, b) for a relative b.
Join(a, b) ==
    IF a = <<>> THEN b
    ELSE IF a[Len(a)] = "/" THEN a \o b
    ELSE a \o <<"/">> \o b

\* piecePath[len(path) + 1:]
SubPathOf(path, piecePath) ==
    SubSeq(piecePath, Len(path) + 2, Len(piecePath))

\* ------------------------------------------------------------- storage

\* The datasets of the modelled storage.  D is partitioned by the date
\* key alone, B by another key and S, of one partition, too; P/E is a path
\* whose discovery lists no pieces (the case lines 128-133 handle) next to
\* a sibling file P/g.
pD == <<"D">>

pS == <<"S">>

pB == <<"B">>

pPE == <<"P", "/", "E">>

\* AbstractDataHandler._TMP_DIR_PATH
TmpDirPath == <<"T">>

\* AbstractDataHandler._DEFAULT_D_COL (DATE_COL of arimo.util.date_time)
DefaultDCol == <<"d", "a", "t", "e">>

InitFiles ==
    { <<"D", "/", "d", "a", "t", "e", "=", "1", "/", "f">>,
      <<"D", "/", "d", "a", "t", "e", "=", "1", "0", "/", "f">>,
      <<"D", "/", "d", "a", "t", "e", "=", "9", "/", "f">>,
      <<"B", "/", "k", "=", "1", "/", "f">>,
      <<"B", "/", "k", "=", "2", "/", "f">>,
      <<"S", "/", "k", "=", "1", "/", "f">>,
      <<"P", "/", "E">>,
      <<"P", "/", "g">> }

\* Paths for which the columnar reader lists no pieces.
NoPiecePaths == {pPE}

\* Paths whose discovery, engine load or row count may raise.
FlakyPaths == {pB}

\* Partition files that may disappear from storage while handles on their
\* dataset exist: the partitions that then cannot be loaded.
LosablePaths ==
    { <<"D", "/", "d", "a", "t", "e", "=", "9", "/", "f">>,
      <<"B", "/", "k", "=", "2", "/", "f">> }

\* The paths a caller opens by name.
OpenPaths == {pD, pB, pS, pPE}

\* str(uuid.uuid4()): the i-th fresh name.
Digit(d) == SubSeq(<<"0", "1", "2", "3", "4", "5", "6", "7", "8", "9">>, d + 1, d + 1)

Uuid(i) == <<"u">> \o (IF i >= 10 THEN Digit(i \div 10) ELSE <<>>) \o Digit(i % 10)

FilesUnder(fs, path) == {f \in fs : StartsWith(f, path \o <<"/">>)}

PathExists(fs, path) == path \in fs \/ FilesUnder(fs, path) # {}

\* ParquetDataset(path).pieces, as paths: the file itself, or every file
\* below the directory.
ArrowPieces(fs, path) ==
    IF path \in NoPiecePaths THEN {}
    ELSE IF path \in fs THEN {path}
    ELSE FilesUnder(fs, path)

\* spark.read.load(path).count()
SrcRows(fs, path) ==
    RowsPerPiece * Cardinality(IF path \in fs THEN {path} ELSE FilesUnder(fs, path))

\* The outcomes one construction from a path can have in the environment.
Outcomes(fs, path) ==
    IF ~PathExists(fs, path) THEN {"failArrow"}
    ELSE IF path \in FlakyPaths THEN {"ok", "failArrow", "failSpark", "failCount"}
    ELSE {"ok"}

\* The outcome of a construction the code makes on a path of its own
\* choosing (a subset directory, one partition file).
EnvOut(fs, path) == IF PathExists(fs, path) THEN "ok" ELSE "failArrow"

\* -------------------------------------------------------- engine frames

\* Engine-native operations that are pyspark.ml Transformer objects; the
\* others are plain callables.
TransformerKinds == {"sql", "sqlStar", "fillna", "prep", "transformT"}

\* "selectStar" is a select with '*' among its expressions (or with none),
\* "sqlStar" a bare SELECT * over the alias; "rootF" is a function of the
\* caller that raises on every frame but one loaded from a dataset root.
CallableKinds ==
    {"select", "selectStar", "filter", "withColumn", "drop", "getitem", "transformF",
     "rootF"}

OpKinds == TransformerKinds \cup CallableKinds

\* A loaded source frame.
SrcFrame(path) == [base |-> path, ops |-> <<>>]

\* t.transform(dataset=df) / f(df): the frame with one more operation.
ApplyOp(df, op) == [df EXCEPT !.ops = Append(@, op)]

RECURSIVE ApplyAll(_, _)
ApplyAll(df, ops) ==
    IF ops = <<>> THEN df ELSE ApplyAll(ApplyOp(df, Head(ops)), Tail(ops))

\* t.transform(dataset=df) / f(df) returns: it does not raise.
Applies(df, op) == op = "rootF" => df.base \in OpenPaths

\* The index of the first of the transforms ts that raises when they are
\* applied to df in turn, 0 when none does: what stops the loops of lines
\* 214-225, 414-424 and 810-818.
FirstRaising(df, ts) ==
    IF \A k \in 1..Len(ts) : Applies(ApplyAll(df, SubSeq(ts, 1, k - 1)), ts[k]) THEN 0
    ELSE CHOOSE k \in 1..Len(ts) :
             /\ ~Applies(ApplyAll(df, SubSeq(ts, 1, k - 1)), ts[k])
             /\ \A m \in 1..(k - 1) : Applies(ApplyAll(df, SubSeq(ts, 1, m - 1)), ts[m])

\* df.count(): every filter removes one row of the source, never the last.
FrameRows(fs, df) ==
    Max(1, SrcRows(fs, df.base) - Cardinality({i \in 1..Len(df.ops) : df.ops[i] = "filter"}))

\* df.columns after the operations ops on a frame of columns cols: select
\* and sql project on x unless they take every column, self[['x']] projects
\* on x, drop drops y, withColumn, prep and the generic transforms add a
\* column of their own; filter and fillna keep the columns.
RECURSIVE SchemaAfter(_, _)
SchemaAfter(cols, ops) ==
    IF ops = <<>> THEN cols
    ELSE SchemaAfter(CASE Head(ops) \in {"select", "sql", "getitem"} -> cols \cap {"x"}
                       [] Head(ops) = "drop" -> cols \ {"y"}
                       [] Head(ops) = "withColumn" -> cols \cup {"z"}
                       [] Head(ops) = "prep" -> cols \cup {"p"}
                       [] Head(ops) = "transformT" -> cols \cup {"t"}
                       [] Head(ops) = "transformF" -> cols \cup {"f"}
                       [] OTHER -> cols,
                     Tail(ops))

\* The content columns of a loaded source frame.
SrcCols == {"x", "y"}

\* df.schema of an engine frame, as its set of columns.
Schema(df) == SchemaAfter(SrcCols, df.ops)

\* ---------------------------------------------------------------- state

VARIABLES
    files,      \* the partition files present in storage
    CACHE,      \* S3ParquetDistributedDataFrame._CACHE: path -> entry
    handles,    \* the handle objects, in order of construction
    pieceADFs,  \* pieceADFs[i]: the _cache.pieceADFs dict made with handle i
    nUuid,      \* temporary subset directories created so far
    nCalls,     \* calls made so far
    last,       \* the call last made: its arguments and what it did
    minNonNullProportion,
                \* _minNonNullProportion of one handler: the default
                \* threshold and the thresholds set for single columns
    suffNonNull,
                \* _cache.suffNonNull of that handler: column -> flag
    suffNonNullProportionThreshold,
                \* _cache.suffNonNullProportionThreshold: column -> the
                \* threshold its flag was computed under
    lastProfiled,
                \* the profiling call last made on that handler
    reprSample, \* _cache.reprSample of that handler: empty for None, else
                \* the one sample, with its rows and the handles it was
                \* drawn from
    reprSampleSize,
                \* _reprSampleSize of that handler
    cachedNonNullProportion,
                \* _cache.nonNullProportion of that handler: column ->
                \* proportion
    otherThresholds,
                \* the defaults of _outlierTailProportion, _maxNCats and
                \* _minProportionByMaxNCats of that handler
    threads,    \* per thread: where it is in __init__, and its locals
    finished    \* what the constructions made by threads did

dataVars == <<files, CACHE, handles, pieceADFs, nUuid, last>>

profileVars ==
    <<minNonNullProportion, suffNonNull, suffNonNullProportionThreshold, lastProfiled>>

reprVars == <<reprSample, reprSampleSize, cachedNonNullProportion, otherThresholds>>

raceVars == <<threads, finished>>

vars == <<dataVars, nCalls, profileVars, reprVars, raceVars>>

\* The program state a method works on.
Now ==
    [files |-> files, CACHE |-> CACHE, handles |-> handles,
     pieceADFs |-> pieceADFs, nUuid |-> nUuid]

\* What a method did: the state it leaves, the handle it returned (0 when
\* it returned none), whether and what it raised, the constructions it made, the
\* files it copied, the handles it returned as a list and the partitions
\* it read.
Ret(st, res) ==
    [st |-> st, res |-> res, raised |-> FALSE, exc |-> "none", ctors |-> <<>>,
     copied |-> {}, results |-> <<>>, read |-> {}]

Raise(st, exc) ==
    [st |-> st, res |-> 0, raised |-> TRUE, exc |-> exc, ctors |-> <<>>,
     copied |-> {}, results |-> <<>>, read |-> {}]

\* What r and then one did, with the outcome of one.
Then(r, one) ==
    [one EXCEPT !.ctors = r.ctors \o one.ctors,
                !.copied = r.copied \cup one.copied,
                !.results = r.results,
                !.read = r.read]

\* ------------------------------------------------- registry, __init__

\* Namespace(): the entry as inserted, before discovery fills it.
EmptyEntry ==
    [stage |-> "empty", nPieces |-> 0, hasPath |-> FALSE, path |-> <<>>,
     piecePaths |-> {}, pieceSubPaths |-> {}, dateOnly |-> FALSE, srcNRows |-> 0]

\* The piece the loop of lines 116-126 sees first (the reader lists its
\* pieces sorted).
FirstPiece(pieces) == CHOOSE p \in pieces : \A q \in pieces : p = q \/ StrLess(p, q)

\* Lines 116-126: the test for a dataset partitioned by the date key alone,
\* on the sub-path of the first piece.
DateOnly(pieceSubPath) ==
    StartsWith(pieceSubPath, DefaultDCol \o <<"=">>) /\ CountSlash(pieceSubPath) = 1

\* Lines 107-133: what discovery records in the entry, pieces being the
\* pieces the reader lists.
Recorded(path, pieces) ==
    IF pieces # {}
    THEN [stage |-> "arrow",
          nPieces |-> Cardinality(pieces),
          hasPath |-> FALSE, path |-> <<>>,
          piecePaths |-> pieces,
          pieceSubPaths |-> {SubPathOf(path, q) : q \in pieces},
          dateOnly |-> DateOnly(SubPathOf(path, FirstPiece(pieces))),
          srcNRows |-> 0]
    ELSE [stage |-> "arrow",
          nPieces |-> 1,
          hasPath |-> TRUE, path |-> Dirname(path),
          piecePaths |-> {Dirname(path)},
          pieceSubPaths |-> {Basename(path)},
          dateOnly |-> FALSE,
          srcNRows |-> 0]

Discovered(fs, path) == Recorded(path, ArrowPieces(fs, path))

\* Lines 135-189: the engine load and the row count on top of a discovered
\* entry.  A raise leaves the entry as far as it was filled: without
\* _srcSparkDF when the engine load raised, without _srcNRows when the
\* count raised.
Filled(entry, srcNRows, out) ==
    IF out = "failSpark" THEN entry
    ELSE IF out = "failCount" THEN [entry EXCEPT !.stage = "spark"]
    ELSE [entry EXCEPT !.stage = "full", !.srcNRows = srcNRows]

\* Lines 83-189: the entry a (re)load leaves in the registry, empty when
\* discovery raised.
Loaded(fs, path, out) ==
    IF out = "failArrow" THEN EmptyEntry
    ELSE Filled(Discovered(fs, path), SrcRows(fs, path), out)

\* Line 70 with the test on reCache alone: any present entry is taken for
\* loaded.
ReusesPresent(cache, path, reCache) ==
    (~reCache) /\ path \in DOMAIN cache

\* Line 70 finding no path in the registry.
CacheMiss(cache, path, reCache) == FALSE

\* Line 70: the registry is consulted and a cached entry taken.
CacheHit(cache, path, reCache) == (~reCache) /\ path \in DOMAIN cache

\* Lines 76-83: a taken entry that is non-empty is reused, anything else
\* is (re)loaded.
Reuses(cache, path, reCache) ==
    CacheHit(cache, path, reCache) /\ cache[path].stage # "empty"

\* The construction raises only where an engine frame is missing or a load
\* fails: the row count of a reused entry is not looked at.
RaisesOnFrameOnly(reuse, entry, out, initDF) ==
    \/ reuse /\ entry.stage = "arrow"
    \/ ~reuse /\ out # "ok"

\* Where __init__ raises: the assertion of line 77 on a reused entry
\* without _srcSparkDF, a failing discovery, engine load or count (lines
\* 89, 169, 185), and the read of self._srcNRows (line 203) of an entry
\* without it when no _initSparkDF is given.
CtorRaises(reuse, entry, out, initDF) ==
    \/ reuse /\ entry.stage = "arrow"
    \/ ~reuse /\ out # "ok"
    \/ initDF = {} /\ entry.stage = "spark"

\* S3ParquetDistributedDataFrame.__init__ from line 83 on, reuse telling
\* whether the registry entry is reused and entry being the entry after
\* lines 83-189.  initDF, sparkDF and nRows are sets: empty for None, else
\* the one value.  pc names the pieceADFs dict the handle ends up with: 0
\* for its own new one (line 247).  The handle is given no alias (alias is
\* a set, empty for None), and has inherited no profiling cache yet.
Constructed(st, path, reCache, out, reuse, entry, initDF, sparkDFTransforms, sparkDF, pandasDFTransforms, nRows, pc) ==
    LET cache1 == IF reuse THEN st.CACHE
                  ELSE [q \in DOMAIN st.CACHE \cup {path} |->
                            IF q = path THEN entry ELSE st.CACHE[q]]
        init == IF initDF # {} THEN CHOOSE f \in initDF : TRUE ELSE SrcFrame(path)
        replayRaises ==                                  \* lines 212-225
            sparkDF = {} /\ FirstRaising(init, sparkDFTransforms) # 0
        raised == CtorRaises(reuse, entry, out, initDF) \/ replayRaises
        id == Len(st.handles) + 1
        h == [path |-> IF entry.hasPath THEN entry.path ELSE path,
              nPieces |-> entry.nPieces,
              piecePaths |-> entry.piecePaths,
              pieceSubPaths |-> entry.pieceSubPaths,
              dateOnly |-> entry.dateOnly,
              initDF |-> init,
              sparkT |-> sparkDFTransforms,
              pandasT |-> pandasDFTransforms,
              sparkDF |-> IF sparkDF # {} THEN CHOOSE f \in sparkDF : TRUE
                          ELSE ApplyAll(init, sparkDFTransforms),
              nRows |-> IF initDF # {} THEN nRows ELSE {entry.srcNRows},
              minNP |-> Min(ReprSampleMinNPieces, entry.nPieces),
              pc |-> IF pc = 0 THEN id ELSE pc,
              alias |-> {},
              inherited |-> FALSE]
        event == [path |-> path, reCache |-> reCache,
                  present |-> path \in DOMAIN st.CACHE,
                  empty |-> path \in DOMAIN st.CACHE /\ st.CACHE[path].stage = "empty",
                  discovered |-> ~reuse, raised |-> raised]
    IN  [st |-> IF raised
                THEN [st EXCEPT !.CACHE = cache1]
                ELSE [st EXCEPT !.CACHE = cache1,
                                !.handles = Append(@, h),
                                !.pieceADFs = Append(@, << >>)],
         res |-> IF raised THEN 0 ELSE id,
         raised |-> raised,
         exc |-> IF ~raised THEN "none"
                 ELSE IF reuse /\ entry.stage = "arrow" THEN "AssertionError"
                 ELSE IF ~reuse /\ out # "ok" THEN "LoadError"
                 ELSE IF initDF = {} /\ entry.stage = "spark" THEN "AttributeError"
                 ELSE "TransformError",
         ctors |-> <<event>>,
         copied |-> {},
         results |-> <<>>,
         read |-> {}]

\* S3ParquetDistributedDataFrame.__init__.
Ctor(st, path, reCache, out, initDF, sparkDFTransforms, sparkDF, pandasDFTransforms, nRows, pc) ==
    Constructed(st, path, reCache, out,
                Reuses(st.CACHE, path, reCache),
                IF Reuses(st.CACHE, path, reCache) THEN st.CACHE[path]
                ELSE Loaded(st.files, path, out),
                initDF, sparkDFTransforms, sparkDF, pandasDFTransforms, nRows, pc)

\* The outcomes the construction Ctor would make can have: only a
\* (re)load consults the environment.
CtorOutcomes(path, reCache) ==
    IF Reuses(CACHE, path, reCache) THEN {"ok"} ELSE Outcomes(files, path)

\* --------------------------------------------------------------- calls

NoCall ==
    [op |-> "none", src |-> 0, args |-> <<>>, res |-> 0, raised |-> FALSE,
     exc |-> "none", ctors |-> <<>>, copied |-> {}, results |-> <<>>, read |-> {},
     at |-> 0]

\* ------------------------------------------------------------ profiling

\* Proportions are in percent.  The default of minNonNullProportion
\* (.32, line 68).
DefaultMinNonNullProportion == 32

\* The thresholds a caller sets.
Thresholds == {20, 32, 60}

\* The content columns of the handler.
Cols == {"x", "y"}

\* nonNullProportion(col) (line 483, computed by the backend): the
\* proportion of non-NULL values of the column in the data.
NonNullProportion(col) == IF col = "x" THEN 32 ELSE 50

\* self._minNonNullProportion[col]: the threshold set for the column, or
\* the default when none is.
ThresholdOf(m, col) == IF col \in DOMAIN m THEN m[col] ELSE m["default"]

\* The profiling state a method works on.
Profile ==
    [m |-> minNonNullProportion, flags |-> suffNonNull,
     thresholds |-> suffNonNullProportionThreshold]

NoProfileCall ==
    [op |-> "none", col |-> "", value |-> 0, result |-> FALSE, computed |-> FALSE,
     before |-> [m |-> <<>>, flags |-> <<>>, thresholds |-> <<>>], at |-> 0]

\* The minNonNullProportion setter leaving the cached flags alone.
SetterKeepingFlags(p, v) == [p EXCEPT !.m["default"] = v]

\* The minNonNullProportion setter: lines 255-259.
MinNonNullProportionSetter(p, v) ==
    IF v # p.m["default"]
    THEN [p EXCEPT !.m["default"] = v, !.flags = <<>>]
    ELSE p

\* suffNonNull(col) returning any flag it has cached.
SuffNonNullCached(p, col) ==
    IF col \in DOMAIN p.flags
    THEN [p |-> p, computed |-> FALSE, result |-> p.flags[col]]
    ELSE [p |-> [p EXCEPT !.flags = (col :> (NonNullProportion(col) >= ThresholdOf(p.m, col))) @@ @,
                          !.thresholds = (col :> ThresholdOf(p.m, col)) @@ @],
          computed |-> TRUE,
          result |-> NonNullProportion(col) >= ThresholdOf(p.m, col)]

\* suffNonNull(col) for one column: lines 510-530.  computed tells whether
\* nonNullProportion(col) was evaluated.
SuffNonNull(p, col) ==
    LET threshold == ThresholdOf(p.m, col)
        outdated == col \in DOMAIN p.thresholds /\ p.thresholds[col] # threshold
        thresholds1 == (col :> threshold) @@ p.thresholds
        compute == col \notin DOMAIN p.flags \/ outdated
        flags1 == IF compute
                  THEN (col :> (NonNullProportion(col) >= thresholds1[col])) @@ p.flags
                  ELSE p.flags
    IN  [p |-> [p EXCEPT !.thresholds = thresholds1, !.flags = flags1],
         computed |-> compute,
         result |-> flags1[col]]

\* One profiling call: the state it leaves and the record of the call.
ProfileCall(op, col, value, r) ==
    /\ nCalls < MaxCalls
    /\ nCalls' = nCalls + 1
    /\ minNonNullProportion' = r.p.m
    /\ suffNonNull' = r.p.flags
    /\ suffNonNullProportionThreshold' = r.p.thresholds
    /\ lastProfiled' = [op |-> op, col |-> col, value |-> value, result |-> r.result,
                        computed |-> r.computed, before |-> Profile, at |-> nCalls + 1]
    /\ cachedNonNullProportion' =
           IF r.computed THEN (col :> NonNullProportion(col)) @@ cachedNonNullProportion
           ELSE cachedNonNullProportion
    /\ UNCHANGED <<dataVars, reprSample, reprSampleSize, otherThresholds, raceVars>>

\* handler.minNonNullProportion = v
SetMinNonNullProportion ==
    \E v \in Thresholds :
        ProfileCall("minNonNullProportion", "", v,
                    [p |-> MinNonNullProportionSetter(Profile, v),
                     computed |-> FALSE, result |-> FALSE])

\* The threshold of one column is set, as the per-column form of the
\* minNonNullProportion argument does: no cache is touched.
SetColumnMinNonNullProportion ==
    \E col \in Cols, v \in Thresholds :
        ProfileCall("columnMinNonNullProportion", col, v,
                    [p |-> [Profile EXCEPT !.m = (col :> v) @@ @],
                     computed |-> FALSE, result |-> FALSE])

\* handler.suffNonNull(col)
SuffNonNullCall ==
    \E col \in Cols :
        ProfileCall("suffNonNull", col, 0, SuffNonNull(Profile, col))

\* ------------------------------------------------ representative sample

\* _DEFAULT_REPR_SAMPLE_SIZE (10 ** 6, line 65): more rows than any
\* dataset of the modelled storage has.
DefaultReprSampleSize == 4 * RowsPerPiece

\* The sizes a caller sets reprSampleSize to.
ReprSampleSizes == {1, 4}

\* _DEFAULT_OUTLIER_TAIL_PROPORTION (in 1/1000), _DEFAULT_MAX_N_CATS and
\* _DEFAULT_MIN_PROPORTION_BY_MAX_N_CATS (in percent): lines 69-71.
DefaultThresholds ==
    [outlierTailProportion |-> 1, maxNCats |-> 12, minProportionByMaxNCats |-> 90]

\* The values a caller sets each of them to.
ThresholdValues ==
    [outlierTailProportion |-> {1, 5}, maxNCats |-> {12, 4},
     minProportionByMaxNCats |-> {90, 50}]

\* The sample and the caches a sample-related method works on.
Repr ==
    [reprSample |-> reprSample, reprSampleSize |-> reprSampleSize,
     nonNullProportion |-> cachedNonNullProportion, suffNonNull |-> suffNonNull,
     thresholds |-> otherThresholds]

\* A setter of a threshold that also drops the cached sample.
ThresholdSetterResetting(q, name, v) ==
    [q EXCEPT !.thresholds[name] = v, !.reprSample = {}]

\* The setters of outlierTailProportion, maxNCats and
\* minProportionByMaxNCats: lines 270-272, 282-284, 295-297.
ThresholdSetter(q, name, v) == [q EXCEPT !.thresholds[name] = v]

\* Lines 982-987 leaving the recorded size and the caches as they were.
AssignedKeepingCaches(q, adf) == [q EXCEPT !.reprSample = {adf}]

\* Lines 982-987: the sample adf is recorded with its actual size and the
\* caches computed on the former sample are emptied.
Assigned(q, adf) ==
    [q EXCEPT !.reprSample = {adf}, !.reprSampleSize = adf.nRows,
              !.nonNullProportion = << >>, !.suffNonNull = << >>]

\* ------------------------------------------- concurrent constructions

\* The threads that construct handles concurrently.
Threads == {1, 2}

\* The paths they open, without reCache.
RacePaths == {pD, pS}

\* A thread outside __init__, having made n constructions.  Of a
\* construction under way, overlap tells whether another thread was
\* constructing for the same path at some time since it began.
Idle(n) ==
    [pc |-> "idle", n |-> n, path |-> <<>>, hit |-> FALSE, shared |-> FALSE,
     own |-> EmptyEntry, found |-> "none", overlap |-> FALSE, discovered |-> FALSE]

\* --------------------------------------------------------------- calls

Init ==
    /\ minNonNullProportion = ("default" :> DefaultMinNonNullProportion)
    /\ suffNonNull = << >>
    /\ suffNonNullProportionThreshold = << >>
    /\ lastProfiled = NoProfileCall
    /\ reprSample = {}
    /\ reprSampleSize = DefaultReprSampleSize
    /\ cachedNonNullProportion = << >>
    /\ otherThresholds = DefaultThresholds
    /\ files = InitFiles
    /\ CACHE = << >>
    /\ handles = << >>
    /\ pieceADFs = << >>
    /\ nUuid = 0
    /\ nCalls = 0
    /\ last = NoCall
    /\ threads = [t \in Threads |-> Idle(0)]
    /\ finished = {}

\* What one call does: the state the method leaves and the record of the
\* call.
Did(op, i, args, r) ==
    /\ nCalls' = nCalls + 1
    /\ files' = r.st.files
    /\ CACHE' = r.st.CACHE
    /\ handles' = r.st.handles
    /\ pieceADFs' = r.st.pieceADFs
    /\ nUuid' = r.st.nUuid
    /\ last' = [op |-> op, src |-> i, args |-> args, res |-> r.res,
                raised |-> r.raised, exc |-> r.exc, ctors |-> r.ctors, copied |-> r.copied,
                results |-> r.results, read |-> r.read, at |-> nCalls + 1]
    /\ UNCHANGED <<profileVars, reprVars, raceVars>>

\* One call, within the budget of calls.
Call(op, i, args, r) == nCalls < MaxCalls /\ Did(op, i, args, r)

\* S3ParquetDistributedDataFrame(path=..., reCache=...) / load(path).
Open ==
    \E path \in OpenPaths, reCache \in BOOLEAN :
        \E out \in CtorOutcomes(path, reCache) :
            Call("open", 0, <<path, reCache>>,
                 Ctor(Now, path, reCache, out, {}, <<>>, {}, <<>>, {}, 0))

\* A partition file disappears from storage.
Lose ==
    \E f \in files \cap LosablePaths :
        Call("lose", 0, <<f>>, Ret([Now EXCEPT !.files = @ \ {f}], 0))

\* ------------------------------------- __init__, statement by statement

\* The Namespace the local _cache of thread t refers to: the one the
\* registry holds for the path, or one the registry holds no more.
Obj(t) ==
    IF threads[t].shared THEN CACHE[threads[t].path] ELSE threads[t].own

\* The thread assigns attributes of its _cache: the registry shows them
\* exactly when it holds that Namespace.
Assigns(t, entry, pc) ==
    /\ CACHE' = IF threads[t].shared THEN [CACHE EXCEPT ![threads[t].path] = entry]
                ELSE CACHE
    /\ threads' = [threads EXCEPT ![t].own = IF threads[t].shared THEN @ ELSE entry,
                                  ![t].pc = pc,
                                  ![t].discovered = TRUE]
    /\ UNCHANGED <<files, handles, pieceADFs, nUuid, last, nCalls, profileVars,
                   reprVars, finished>>

\* The thread leaves __init__, by a return or a raise.
Leaves(t, raised) ==
    /\ threads' = [threads EXCEPT ![t] = Idle(threads[t].n)]
    /\ finished' = finished \cup
           {[t |-> t, n |-> threads[t].n, path |-> threads[t].path,
             found |-> threads[t].found, overlap |-> threads[t].overlap,
             discovered |-> threads[t].discovered, raised |-> raised]}

\* A thread enters __init__ and evaluates line 70.
RaceLook ==
    \E t \in Threads, path \in RacePaths :
        /\ threads[t].pc = "idle"
        /\ threads[t].n < MaxRaceCtors
        /\ threads' =
               [u \in Threads |->
                   IF u = t
                   THEN [Idle(threads[t].n + 1) EXCEPT
                            !.pc = "looked",
                            !.path = path,
                            !.hit = CacheHit(CACHE, path, FALSE),
                            !.overlap = \E w \in Threads \ {t} :
                                            /\ threads[w].pc # "idle"
                                            /\ threads[w].path = path]
                   ELSE IF threads[u].pc # "idle" /\ threads[u].path = path
                   THEN [threads[u] EXCEPT !.overlap = TRUE]
                   ELSE threads[u]]
        /\ UNCHANGED <<dataVars, nCalls, profileVars, reprVars, finished>>

\* Line 71: _cache = self._CACHE[path].
RaceTake ==
    \E t \in Threads :
        /\ threads[t].pc = "looked"
        /\ threads[t].hit
        /\ threads' = [threads EXCEPT ![t].pc = "has",
                                      ![t].shared = TRUE,
                                      ![t].found = CACHE[threads[t].path].stage]
        /\ UNCHANGED <<dataVars, nCalls, profileVars, reprVars, finished>>

\* Line 74: self._CACHE[path] = _cache = Namespace().  A thread that held
\* the Namespace the registry had for the path goes on with it.
RaceInsert ==
    \E t \in Threads :
        /\ threads[t].pc = "looked"
        /\ ~threads[t].hit
        /\ CACHE' = [q \in DOMAIN CACHE \cup {threads[t].path} |->
                        IF q = threads[t].path THEN EmptyEntry ELSE CACHE[q]]
        /\ threads' =
               [u \in Threads |->
                   IF u = t
                   THEN [threads[t] EXCEPT !.pc = "has", !.shared = TRUE,
                                           !.found = "absent"]
                   ELSE IF threads[u].shared /\ threads[u].path = threads[t].path
                   THEN [threads[u] EXCEPT !.shared = FALSE,
                                           !.own = CACHE[threads[t].path]]
                   ELSE threads[u]]
        /\ UNCHANGED <<files, handles, pieceADFs, nUuid, last, nCalls, profileVars,
                       reprVars, finished>>

\* Lines 76-83: an empty _cache is to be loaded; any other passes the
\* assertion when it has _srcSparkDF and fails it when not.
RaceTest ==
    \E t \in Threads :
        /\ threads[t].pc = "has"
        /\ IF Obj(t).stage = "empty"
           THEN /\ threads' = [threads EXCEPT ![t].pc = "discover"]
                /\ UNCHANGED finished
           ELSE IF Obj(t).stage = "arrow"
           THEN Leaves(t, TRUE)
           ELSE /\ threads' = [threads EXCEPT ![t].pc = "finish"]
                /\ UNCHANGED finished
        /\ UNCHANGED <<dataVars, nCalls, profileVars, reprVars>>

\* Lines 89-133: discovery, assigned to the attributes of _cache; what
\* another thread loaded into the same Namespace stays.
RaceDiscover ==
    \E t \in Threads :
        /\ threads[t].pc = "discover"
        /\ Assigns(t, [Discovered(files, threads[t].path) EXCEPT
                           !.stage = IF Obj(t).stage \in {"spark", "full"}
                                     THEN Obj(t).stage ELSE @,
                           !.srcNRows = Obj(t).srcNRows],
                   "load")

\* Lines 169-183: the engine load, _cache._srcSparkDF.
RaceLoad ==
    \E t \in Threads :
        /\ threads[t].pc = "load"
        /\ Assigns(t, [Obj(t) EXCEPT !.stage = IF @ = "full" THEN @ ELSE "spark"],
                   "count")

\* Line 185: _cache._srcNRows.
RaceCount ==
    \E t \in Threads :
        /\ threads[t].pc = "count"
        /\ Assigns(t, Filled(Obj(t), SrcRows(files, threads[t].path), "ok"), "finish")

\* Lines 191-247: the attributes of _cache as they are now become those
\* of the handle; line 203 raises when _srcNRows is not among them.
RaceFinish ==
    \E t \in Threads :
        LET r == Constructed(Now, threads[t].path, FALSE, "ok", TRUE, Obj(t),
                             {}, <<>>, {}, <<>>, {}, 0)
        IN  /\ threads[t].pc = "finish"
            /\ Leaves(t, r.raised)
            /\ handles' = r.st.handles
            /\ pieceADFs' = r.st.pieceADFs
            /\ UNCHANGED <<files, CACHE, nUuid, last, nCalls, profileVars, reprVars>>

\* ----------------------------------------------------------- transforms

\* transform() with line 437 leaving the additional transforms out of the
\* chain handed to the new handle.
TransformOfChainKept(st, i, adds, padds, given, inheritNRows, out) ==
    Ctor(st, st.handles[i].path, FALSE, out, {st.handles[i].initDF},
         st.handles[i].sparkT,
         IF given # {} THEN given ELSE {ApplyAll(st.handles[i].sparkDF, adds)},
         st.handles[i].pandasT \o padds,
         IF inheritNRows THEN st.handles[i].nRows ELSE {}, st.handles[i].pc)

\* transform() with line 439 leaving the local chain as it is.
TransformOfNoLocal(st, i, adds, padds, given, inheritNRows, out) ==
    Ctor(st, st.handles[i].path, FALSE, out, {st.handles[i].initDF},
         st.handles[i].sparkT \o adds,
         IF given # {} THEN given ELSE {ApplyAll(st.handles[i].sparkDF, adds)},
         st.handles[i].pandasT,
         IF inheritNRows THEN st.handles[i].nRows ELSE {}, st.handles[i].pc)

\* transform() with line 441 handing no row count to the new handle.
TransformOfNoNRows(st, i, adds, padds, given, inheritNRows, out) ==
    Ctor(st, st.handles[i].path, FALSE, out, {st.handles[i].initDF},
         st.handles[i].sparkT \o adds,
         IF given # {} THEN given ELSE {ApplyAll(st.handles[i].sparkDF, adds)},
         st.handles[i].pandasT \o padds, {}, st.handles[i].pc)

\* transform() going on past a transform that raises in the loop of lines
\* 414-424.
TransformOfSuppressing(st, i, adds, padds, given, inheritNRows, out) ==
    Ctor(st, st.handles[i].path, FALSE, out, {st.handles[i].initDF},
         st.handles[i].sparkT \o adds,
         IF given # {} THEN given ELSE {ApplyAll(st.handles[i].sparkDF, adds)},
         st.handles[i].pandasT \o padds,
         IF inheritNRows THEN st.handles[i].nRows ELSE {}, st.handles[i].pc)

\* Lines 385-398: inheritCache, from the argument of that name and the
\* transforms given: on when every one of them is a Transformer.
InheritCache(adds, inheritCache) ==
    inheritCache \/ \A k \in 1..Len(adds) : adds[k] \in TransformerKinds

\* transform(): lines 379-451.  adds / padds are the additional
\* engine-native and local transforms, given the engine frame the caller
\* passed as _sparkDF (a set: empty for None).  Every caller modelled
\* passes inheritCache and inheritNRows equal, or neither.  The new handle
\* is built over self.path and takes over the pieceADFs dict of self (line
\* 449); `inherited` tells whether it was made to inherit the profiling
\* cache of self (line 447).
TransformOf(st, i, adds, padds, given, inheritNRows, out) ==
    LET self == st.handles[i]
        sparkDF == IF given # {} THEN given ELSE {ApplyAll(self.sparkDF, adds)}
        Inheriting(r) ==                                 \* lines 446-447
            IF r.raised THEN r
            ELSE [r EXCEPT !.st.handles[r.res].inherited = InheritCache(adds, inheritNRows)]
    IN  IF given = {} /\ FirstRaising(self.sparkDF, adds) # 0
        THEN Raise(st, "TransformError")                 \* lines 414-424
        ELSE Inheriting(Ctor(st, self.path, FALSE, out, {self.initDF},
                             self.sparkT \o adds, sparkDF, self.pandasT \o padds,
                             IF inheritNRows THEN self.nRows ELSE {}, self.pc))

Transform(op, i, adds, padds, given, inheritNRows) ==
    /\ Len(handles[i].sparkT) + Len(adds) <= MaxChain
    /\ \E out \in CtorOutcomes(handles[i].path, FALSE) :
           Call(op, i, <<adds, padds>>,
                TransformOf(Now, i, adds, padds, given, inheritNRows, out))

\* transform(sparkDFTransform, pandasDFTransform=...) called directly: a
\* Transformer, a callable, or a list of them; inheritCache (and with it
\* inheritNRows) is on exactly when every one is a Transformer.
GenericTransform ==
    \E i \in 1..Len(handles) :
        \E adds \in {<<"transformT">>, <<"transformF">>, <<"transformF", "transformT">>,
                     <<"rootF">>},
           padds \in {<<>>, <<"transformF">>, <<"rootF">>} :
            Transform("transform", i, adds, padds, {},
                      \A k \in 1..Len(adds) : adds[k] \in TransformerKinds)

\* select(*exprs): lines 453-471; star tells whether '*' is among exprs
\* (or exprs is empty).
Select ==
    \E i \in 1..Len(handles), star \in BOOLEAN :
        Transform("select", i, IF star THEN <<"selectStar">> ELSE <<"select">>, <<>>, {}, star)

\* The queries passed to sql(), alias 'this': whether the text starts
\* with select, whether the engine accepts it, whether 'select *' or
\* 'select this.*' occurs in it, and which of where, join, union do.
Queries ==
    { [text |-> "SELECT * FROM this", starts |-> TRUE, valid |-> TRUE,
       star |-> TRUE, words |-> {}],
      [text |-> "SELECT x FROM this", starts |-> TRUE, valid |-> TRUE,
       star |-> FALSE, words |-> {}],
      [text |-> "SELECT * FROM this WHERE x > 0", starts |-> TRUE, valid |-> TRUE,
       star |-> TRUE, words |-> {"where"}],
      [text |-> "SELECT * FROM", starts |-> TRUE, valid |-> FALSE,
       star |-> TRUE, words |-> {}],
      [text |-> "SHOW TABLES", starts |-> FALSE, valid |-> TRUE,
       star |-> FALSE, words |-> {}] }

\* Lines 484-488: the default sql() computes for inheritCache.
SqlInheritCache(query) ==
    query.star /\ query.words \cap {"where", "join", "union"} = {}

\* handle.alias = alias.
AliasSetter(st, i, alias) == [st EXCEPT !.handles[i].alias = alias]

\* The except clause of sql() leaving the alias as it finds it.
RestoreNothing(st, i, origAlias) == st

\* Lines 505-507: the except clause of sql().
Restore(st, i, origAlias) == AliasSetter(st, i, origAlias)

\* sql(query, tempAlias): lines 473-507.
SqlOf(st, i, query, tempAlias, out) ==
    LET origAlias == st.handles[i].alias                          \* line 474
        st1 == AliasSetter(st, i, {tempAlias})                    \* line 475
        st2 == AliasSetter(st1, i, origAlias)                     \* line 482
        q == IF SqlInheritCache(query) THEN "sqlStar" ELSE "sql"
        Excepting(r) ==
            IF r.raised THEN [r EXCEPT !.st = Restore(r.st, i, origAlias)] ELSE r
    IN  IF ~query.starts
        THEN Raise(Restore(st1, i, origAlias), "AssertionError")  \* line 479
        ELSE IF ~query.valid
        THEN Raise(Restore(st1, i, origAlias), "SqlError")        \* line 481
        ELSE Excepting(TransformOf(st2, i, <<q>>, <<>>,
                                   {ApplyOp(st.handles[i].sparkDF, q)},
                                   SqlInheritCache(query), out))

Sql ==
    \E i \in 1..Len(handles), query \in Queries :
        /\ Len(handles[i].sparkT) + 1 <= MaxChain
        /\ \E out \in CtorOutcomes(handles[i].path, FALSE) :
               Call("sql", i,
                    <<IF SqlInheritCache(query) THEN <<"sqlStar">> ELSE <<"sql">>,
                      <<>>, query>>,
                    SqlOf(Now, i, query, "this", out))

\* handle.alias = 'a'.
SetAlias ==
    \E i \in 1..Len(handles) :
        Call("alias", i, <<"a">>, Ret(AliasSetter(Now, i, {"a"}), 0))

\* fillna(*cols): lines 531-558.
Fillna ==
    \E i \in 1..Len(handles) :
        Transform("fillna", i, <<"fillna">>, <<"fillna">>,
                  {ApplyOp(handles[i].sparkDF, "fillna")}, TRUE)

\* prep(*cols): lines 560-600.
Prep ==
    \E i \in 1..Len(handles) :
        Transform("prep", i, <<"prep">>, <<"prep">>,
                  {ApplyOp(handles[i].sparkDF, "prep")}, TRUE)

\* drop(*cols): lines 602-610.
Drop ==
    \E i \in 1..Len(handles) :
        Transform("drop", i, <<"drop">>, <<"drop">>, {}, TRUE)

\* filter(condition): lines 612-621.
Filter ==
    \E i \in 1..Len(handles) :
        Transform("filter", i, <<"filter">>, <<>>, {}, TRUE)

\* withColumn(colName, colExpr): lines 623-629.
WithColumn ==
    \E i \in 1..Len(handles) :
        Transform("withColumn", i, <<"withColumn">>, <<>>, {}, TRUE)

\* self[[col, ...]]: lines 292-301, a list or tuple of columns.
GetItem ==
    \E i \in 1..Len(handles) :
        Transform("getitem", i, <<"getitem">>, <<"getitem">>, {}, TRUE)

\* -------------------------------------------------------------- subsets

\* Line 643 taking no request for the whole set.
NeverWhole(self, req) == FALSE

\* Line 643: the request names as many sub-paths as the handle has.
IsWhole(self, req) == Cardinality(req) = self.nPieces

\* Lines 683-690 copying every partition of the handle.
CopiesOfAll(self, subsetPath, req) ==
    {[from |-> Join(self.path, q), to |-> Join(subsetPath, q)] : q \in self.pieceSubPaths}

\* Lines 683-690: the files fs.cp copies.
Copies(self, subsetPath, req) ==
    {[from |-> Join(self.path, q), to |-> Join(subsetPath, q)] : q \in req}

\* _subset(*pieceSubPaths): lines 638-724, for requested sub-paths req
\* that line 640 accepts (req is a subset of self.pieceSubPaths).
Subset(st, i, req) ==
    LET self == st.handles[i]
    IN  IF req = {} \/ IsWhole(self, req)
        THEN Ret(st, i)
        ELSE IF Cardinality(req) > 1
        THEN LET subsetPath == Join(TmpDirPath, Uuid(st.nUuid + 1))
                 copies == Copies(self, subsetPath, req)
                 st1 == [st EXCEPT !.files = @ \cup {c.to : c \in copies},
                                   !.nUuid = @ + 1]
                 r == Ctor(st1, subsetPath, FALSE, EnvOut(st1.files, subsetPath),
                           {}, self.sparkT, {}, self.pandasT, {}, 0)
             IN  [r EXCEPT !.copied = copies]
        ELSE LET subsetPath == Join(self.path, CHOOSE q \in req : TRUE)
             IN  Ctor(st, subsetPath, FALSE, EnvOut(st.files, subsetPath),
                      {}, self.sparkT, {}, self.pandasT, {}, 0)

SubsetCall ==
    \E i \in 1..Len(handles) :
        \E req \in SUBSET handles[i].pieceSubPaths :
            Call("_subset", i, <<req>>, Subset(Now, i, req))

\* A filter criterion as filterByPartitionKeys receives it: a tuple of
\* length 2, (col, values), or of length 3, (col, fromVal, toVal), the
\* values already strings; from and to are sets, empty for None.
SetCrit(col, vals) ==
    [col |-> col, len |-> 2, inSet |-> vals, from |-> {}, to |-> {}]

RangeCrit(col, from, to) ==
    [col |-> col, len |-> 3, inSet |-> {}, from |-> from, to |-> to]

\* re.search('{}=(.*?)/'.format(col), sub): the places where col= occurs
\* with a '/' somewhere after it.
KeyMatches(col, sub) ==
    {k \in Occurrences(sub, col \o <<"=">>) :
        \E j \in (k + Len(col) + 1)..Len(sub) : sub[j] = "/"}

\* .group(1) of the leftmost match: the characters up to the next '/'.
KeyValue(col, sub) ==
    LET k == CHOOSE x \in KeyMatches(col, sub) : \A y \in KeyMatches(col, sub) : x <= y
        b == k + Len(col) + 1
        e == CHOOSE j \in b..Len(sub) :
                 sub[j] = "/" /\ \A m \in b..(j - 1) : sub[m] # "/"
    IN  SubSeq(sub, b, e - 1)

\* Lines 826-853: the criteria kept, the last one given for a column
\* winning, for the sample sub-path the code looks the keys up in.
FilterCriteria(crits, samplePieceSubPath) ==
    {c \in {crits[k] : k \in 1..Len(crits)} :
        /\ Contains(samplePieceSubPath, c.col \o <<"=">>)
        /\ \E k \in 1..Len(crits) :
               crits[k] = c /\ \A m \in (k + 1)..Len(crits) : crits[m].col # c.col}

\* Lines 864-866: the test one criterion puts on a key value.
Passes(c, v) ==
    /\ \A f \in c.from : ~StrLess(v, f)
    /\ \A t \in c.to : ~StrLess(t, v)
    /\ c.len = 3 \/ v \in c.inSet

\* Lines 856-871: the sub-paths that pass every kept criterion.
Satisfying(self, filterCriteria) ==
    {q \in self.pieceSubPaths :
        \A c \in filterCriteria : Passes(c, KeyValue(c.col, q))}

\* Line 873 letting an empty result through.
GuardsNothing(pieceSubPaths) == FALSE

\* Line 873: the guard on an empty result.
GuardsEmpty(pieceSubPaths) == pieceSubPaths = {}

\* filterByPartitionKeys(*filterCriteriaTuples): lines 822-884.
FilterByPartitionKeys(st, i, crits, samplePieceSubPath) ==
    LET self == st.handles[i]
        filterCriteria == FilterCriteria(crits, samplePieceSubPath)
    IN  IF \E c \in filterCriteria : c.len \notin {2, 3}
        THEN Raise(st, "ValueError")                         \* line 849
        ELSE IF filterCriteria = {}
        THEN Ret(st, i)                                      \* line 884
        ELSE IF \E c \in filterCriteria, q \in self.pieceSubPaths :
                    KeyMatches(c.col, q) = {}
        THEN Raise(st, "AttributeError")                     \* line 862
        ELSE IF GuardsEmpty(Satisfying(self, filterCriteria))
        THEN Raise(st, "AssertionError")                     \* line 873
        ELSE Subset(st, i, Satisfying(self, filterCriteria))

\* The criteria the model passes.
dateCol == DefaultDCol

kCol == <<"k">>

zCol == <<"z">>

\* No key of any dataset, and the end of the name of one.
eCol == <<"e">>

FilterInputs ==
    { <<SetCrit(dateCol, {<<"1">>})>>,
      <<SetCrit(dateCol, {<<"1">>, <<"9">>})>>,
      <<SetCrit(dateCol, {<<"7">>})>>,
      <<RangeCrit(dateCol, {<<"1">>}, {<<"9">>})>>,
      <<RangeCrit(dateCol, {}, {<<"1", "0">>})>>,
      <<RangeCrit(dateCol, {<<"2">>}, {})>>,
      <<SetCrit(zCol, {<<"1">>})>>,
      <<SetCrit(kCol, {<<"2">>})>>,
      <<SetCrit(kCol, {<<"1">>, <<"2">>}), RangeCrit(zCol, {<<"5">>}, {})>>,
      <<SetCrit(dateCol, {<<"1">>}), SetCrit(dateCol, {<<"9">>, <<"1", "0">>})>>,
      <<SetCrit(eCol, {<<"9">>})>>,
      <<[col |-> kCol, len |-> 4, inSet |-> {}, from |-> {}, to |-> {}]>> }

FilterByPartitionKeysCall ==
    \E i \in 1..Len(handles) :
        \E crits \in FilterInputs, samplePieceSubPath \in handles[i].pieceSubPaths :
            Call("filterByPartitionKeys", i, <<crits, samplePieceSubPath>>,
                 FilterByPartitionKeys(Now, i, crits, samplePieceSubPath))

\* ---------------------------------------------------------------- split

\* round(num / den) as Python 3 and numpy round: to the nearest integer,
\* a tie to the even one.
RoundHalfEven(num, den) ==
    LET q == num \div den
        r == num % den
    IN  IF 2 * r > den \/ (2 * r = den /\ q % 2 = 1) THEN q + 1 ELSE q

RECURSIVE SumTo(_, _)
SumTo(w, k) == IF k = 0 THEN 0 ELSE w[k] + SumTo(w, k - 1)

\* Lines 1000-1010: the list cumuIndices (cumuIndices[i] of the code is
\* element i + 1 here).
CumuIndices(weights, nPieces) ==
    [k \in 1..(Len(weights) + 1) |->
        IF k = 1 THEN 0
        ELSE RoundHalfEven(SumTo(weights, k - 1) * nPieces, SumTo(weights, Len(weights)))]

\* pieceSubPaths[a:b] of the shuffled list, as a set.
Slice(shuffled, a, b) == {shuffled[k] : k \in (a + 1)..Min(b, Len(shuffled))}

\* Lines 1012-1013: _subset for the slices from the k-th on, one after the
\* other; r.results holds the handles returned so far.  A raise ends the
\* call.
RECURSIVE SplitFrom(_, _, _, _, _)
SplitFrom(r, i, shuffled, idx, k) ==
    IF k > Len(idx) - 1 \/ r.raised
    THEN r
    ELSE LET After(one) ==
                 SplitFrom([Then(r, one) EXCEPT !.res = 0,
                                                !.results =
                                                    IF one.raised THEN @
                                                    ELSE Append(@, one.res)],
                           i, shuffled, idx, k + 1)
         IN  After(Subset(r.st, i, Slice(shuffled, idx[k], idx[k + 1])))

\* split(*weights): lines 994-1013; shuffled is the order random.shuffle
\* leaves the sub-paths in.
Split(st, i, weights, shuffled) ==
    IF weights = <<>> \/ weights = <<1>>
    THEN Ret(st, i)
    ELSE SplitFrom(Ret(st, 0), i, shuffled,
                   CumuIndices(weights, st.handles[i].nPieces), 1)

WeightTuples ==
    {<<>>} \cup UNION {[1..k -> 1..MaxWeight] : k \in 1..MaxWeights}

\* The orders a set can be listed in.
Orders(S) ==
    {f \in [1..Cardinality(S) -> S] : \A a, b \in 1..Cardinality(S) : f[a] = f[b] => a = b}

SplitCall ==
    \E i \in 1..Len(handles) :
        \E weights \in WeightTuples, shuffled \in Orders(handles[i].pieceSubPaths) :
            Call("split", i, <<weights, shuffled>>, Split(Now, i, weights, shuffled))

\* --------------------------------------------------------------- sample

\* The first engine-native transform in ts that is a Transformer object,
\* 0 when all are callables.
FirstTransformer(ts) ==
    IF \A k \in 1..Len(ts) : ts[k] \notin TransformerKinds THEN 0
    ELSE CHOOSE k \in 1..Len(ts) :
             ts[k] \in TransformerKinds /\ \A m \in 1..(k - 1) : ts[m] \notin TransformerKinds

\* _pieceADF building the partition handle with the local chain alone,
\* replayed in place of the engine-native one.
PieceADFLocalChain(st, i, pieceSubPath) ==
    Ctor(st, Join(st.handles[i].path, pieceSubPath), FALSE,
         EnvOut(st.files, Join(st.handles[i].path, pieceSubPath)),
         {}, st.handles[i].pandasT, {}, st.handles[i].pandasT, {}, 0)

\* _pieceADF(pieceSubPath): lines 726-786.  On a miss the single-partition
\* handle is built (directly for a dataset partitioned by date alone, else
\* by _subset) and put in the dict; on a hit the cached handle is
\* re-transformed in place, each transform being called as a function
\* (line 774), which a Transformer object is not: that call, or a
\* function that raises, ends the loop with the handle left as far as the
\* loop got.
PieceADF(st, i, pieceSubPath) ==
    LET self == st.handles[i]
        dict == st.pieceADFs[self.pc]
    IN  IF pieceSubPath \notin DOMAIN dict
        THEN LET piecePath == Join(self.path, pieceSubPath)
                 Kept(r) ==
                     IF r.raised THEN r
                     ELSE [r EXCEPT !.st.pieceADFs[self.pc] = (pieceSubPath :> r.res) @@ @]
             IN  Kept(IF self.dateOnly
                      THEN Ctor(st, piecePath, FALSE, EnvOut(st.files, piecePath),
                                {}, self.sparkT, {}, self.pandasT, {}, 0)
                      ELSE Subset(st, i, {pieceSubPath}))
        ELSE LET j == dict[pieceSubPath]
                 noT == FirstTransformer(self.sparkT)
                 noF == FirstRaising(st.handles[j].initDF, self.sparkT)
                 bad == IF noT = 0 THEN noF ELSE IF noF = 0 THEN noT ELSE Min(noT, noF)
                 done == IF bad = 0 THEN self.sparkT ELSE SubSeq(self.sparkT, 1, bad - 1)
                 st1 == [st EXCEPT !.handles[j].sparkT = self.sparkT,
                                   !.handles[j].sparkDF = ApplyAll(st.handles[j].initDF, done),
                                   !.handles[j].pandasT =
                                       IF bad = 0 THEN self.pandasT ELSE @]
             IN  IF bad = 0 THEN Ret(st1, j)
                 ELSE Raise(st1, IF bad = noT THEN "TypeError" ELSE "TransformError")

\* _piecePandasDF(pieceSubPath): lines 794-820, the table of one partition
\* with the local chain applied to it.
PiecePandasDF(self, pieceSubPath) ==
    ApplyAll(SrcFrame(Join(self.path, pieceSubPath)), self.pandasT)

\* What a call of _piecePandasDF does: it reads the partition and raises
\* what the first raising local transform raises (line 818); it returns a
\* table and no handle, and changes nothing.
PiecePandasDFOf(st, i, pieceSubPath) ==
    IF ~PathExists(st.files, Join(st.handles[i].path, pieceSubPath))
    THEN Raise(st, "LoadError")
    ELSE IF FirstRaising(SrcFrame(Join(st.handles[i].path, pieceSubPath)),
                         st.handles[i].pandasT) # 0
    THEN Raise(st, "TransformError")
    ELSE [Ret(st, 0) EXCEPT !.read = {pieceSubPath}]

\* handle._piecePandasDF(pieceSubPath), as the feeders call it.
PiecePandasDFCall ==
    \E i \in 1..Len(handles) :
        \E q \in handles[i].pieceSubPaths :
            Call("_piecePandasDF", i, <<q>>, PiecePandasDFOf(Now, i, q))

\* handle._pieceADF(pieceSubPath), as sample and the feeders call it; one
\* such call may come after the budget of calls is used.
PieceADFCall ==
    \E i \in 1..Len(handles) :
        \E q \in handles[i].pieceSubPaths :
            /\ nCalls < MaxCalls + ExtraPieceCalls
            /\ Did("_pieceADF", i, <<q>>, PieceADF(Now, i, q))

\* The least k with k >= sqrt(m / r) * p, for m <= r: what
\* int(math.ceil((m / r) ** .5 * p)) computes.
CeilSqrtTimes(m, r, p) ==
    CHOOSE k \in 0..p : k * k * r >= m * p * p /\ \A j \in 0..(k - 1) : j * j * r < m * p * p

\* self.nRows: the cached row count, or the count of the engine frame.
NRows(st, self) ==
    IF self.nRows # {} THEN CHOOSE x \in self.nRows : TRUE
    ELSE FrameRows(st.files, self.sparkDF)

\* Lines 897-903 without the floor minNPieces.
SampleNPiecesNoFloor(nRows, nPieces, n, minNPieces, maxNPieces) ==
    IF maxNPieces # 0
    THEN Min(CeilSqrtTimes(Min(n, nRows), nRows, nPieces), maxNPieces)
    ELSE CeilSqrtTimes(Min(n, nRows), nRows, nPieces)

\* Lines 897-903: sampleNPieces.  maxNPieces 0 stands for every value line
\* 902 takes as no cap (None, 0).
SampleNPieces(nRows, nPieces, n, minNPieces, maxNPieces) ==
    LET k == Max(CeilSqrtTimes(Min(n, nRows), nRows, nPieces), minNPieces)
    IN  IF maxNPieces # 0 THEN Min(k, maxNPieces) ELSE k

\* Lines 905-910: the sets random.sample may return, or all the pieces.
SamplePieceChoices(self, sampleNPieces) ==
    IF sampleNPieces < self.nPieces
    THEN {S \in SUBSET self.pieceSubPaths : Cardinality(S) = sampleNPieces}
    ELSE {self.pieceSubPaths}

\* Lines 918-928: the loop over the chosen pieces.  r.read holds the
\* pieces _pieceADF was called for, r.results the handles of the pieces
\* that loaded; a raise is caught and the piece skipped.
RECURSIVE SampleLoop(_, _, _)
SampleLoop(r, i, todo) ==
    IF todo = {} THEN r
    ELSE LET After(q, one) ==
                 SampleLoop([Then(r, one) EXCEPT !.res = 0,
                                                 !.raised = FALSE,
                                                 !.exc = "none",
                                                 !.read = @ \cup {q},
                                                 !.results =
                                                     IF one.raised THEN @
                                                     ELSE Append(@, one.res)],
                            i, todo \ {q})
         IN  After(FirstPiece(todo), PieceADF(r.st, i, FirstPiece(todo)))

\* Lines 930-937 raising as soon as one chosen piece did not load.
SampledAllOrNothing(r) ==
    [r EXCEPT !.raised = (Len(r.results) # Cardinality(r.read)),
              !.exc = IF Len(r.results) # Cardinality(r.read) THEN "UnionError" ELSE "none"]

\* Lines 930-937 returning whatever loaded, be it nothing.
SampledOrEmpty(r) ==
    [r EXCEPT !.raised = FALSE, !.exc = "none"]

\* Lines 930-937: the union of the per-piece samples, a frame that is no
\* handle of this class; with no piece loaded the union raises.
Sampled(r) ==
    [r EXCEPT !.raised = (r.results = <<>>),
              !.exc = IF r.results = <<>> THEN "UnionError" ELSE "none"]

\* sample(n=..., minNPieces=..., maxNPieces=...): lines 886-937, for the
\* pieces line 905-910 chose.
Sample(st, i, samplePieceSubPaths) ==
    Sampled(SampleLoop(Ret(st, 0), i, samplePieceSubPaths))

SampleCall ==
    \E i \in 1..Len(handles) :
        \E n \in 0..MaxN, minNPieces \in {{}} \cup {{m} : m \in 0..MaxNPiecesArg},
           maxNPieces \in 0..MaxNPiecesArg :
            LET self == handles[i]
                floor == IF minNPieces = {} THEN self.minNP
                         ELSE CHOOSE m \in minNPieces : TRUE
                sampleNPieces == SampleNPieces(NRows(Now, self), self.nPieces,
                                               n, floor, maxNPieces)
            IN  \E S \in SamplePieceChoices(self, sampleNPieces) :
                    Call("sample", i, <<n, minNPieces, maxNPieces>>, Sample(Now, i, S))

\* ------------------------------------- representative sample: methods

\* The handler whose thresholds, caches and sample the model follows: the
\* handle constructed first.
ProfiledHandle == 1

\* adf.nRows of the sample drawn from the partition handles results, n /
\* sampleNPieces rows (at least one) from each, as far as it has them.
SampleRows(st, results, n, sampleNPieces) ==
    SumTo([m \in 1..Len(results) |->
               Min(FrameRows(st.files, st.handles[results[m]].sparkDF),
                   Max(n \div sampleNPieces, 1))],
          Len(results))

\* _assignReprSample: lines 967-987, r being what self.sample(n=...) did;
\* when the sample raises nothing is assigned.
AssignReprSample(q, r, n) ==
    IF r.raised THEN q
    ELSE Assigned(q, [nRows |-> SampleRows(r.st, r.results, n, Cardinality(r.read)),
                      pieces |-> r.results])

\* One call of a sample-related method: the state it leaves, q being the
\* sample and caches after it, ran telling whether self.sample(n=...) ran
\* and r what it did.
ReprCall(op, value, q, ran, n, r) ==
    /\ nCalls < MaxCalls
    /\ nCalls' = nCalls + 1
    /\ reprSample' = q.reprSample
    /\ reprSampleSize' = q.reprSampleSize
    /\ cachedNonNullProportion' = q.nonNullProportion
    /\ suffNonNull' = q.suffNonNull
    /\ otherThresholds' = q.thresholds
    /\ lastProfiled' = [op |-> op, col |-> "", value |-> value, result |-> FALSE,
                        computed |-> ran, before |-> Profile, at |-> nCalls + 1]
    /\ files' = r.st.files
    /\ CACHE' = r.st.CACHE
    /\ handles' = r.st.handles
    /\ pieceADFs' = r.st.pieceADFs
    /\ nUuid' = r.st.nUuid
    /\ last' = IF ran
               THEN [op |-> "sample", src |-> ProfiledHandle,
                     args |-> <<n, {handles[ProfiledHandle].minNP}, 0>>, res |-> r.res,
                     raised |-> r.raised, exc |-> r.exc, ctors |-> r.ctors,
                     copied |-> r.copied, results |-> r.results, read |-> r.read,
                     at |-> nCalls + 1]
               ELSE last
    /\ UNCHANGED <<minNonNullProportion, suffNonNullProportionThreshold, raceVars>>

\* A call in which _assignReprSample ran, q being the state it found.
ReprRan(op, value, q, n, r) == ReprCall(op, value, AssignReprSample(q, r, n), TRUE, n, r)

\* The sets of partitions self.sample(n=n, minNPieces=_reprSampleMinNPieces)
\* may choose on the profiled handler.
ReprChoices(n) ==
    SamplePieceChoices(handles[ProfiledHandle],
                       SampleNPieces(NRows(Now, handles[ProfiledHandle]), handles[ProfiledHandle].nPieces,
                                     n, handles[ProfiledHandle].minNP, 0))

\* The getters of reprSample and reprSampleSize (__init__.py, lines
\* 222-244): the sample is assigned when none is cached.
ReadRepr(op) ==
    /\ Len(handles) >= ProfiledHandle
    /\ IF reprSample = {}
       THEN \E S \in ReprChoices(reprSampleSize) :
                ReprRan(op, 0, Repr, reprSampleSize, Sample(Now, ProfiledHandle, S))
       ELSE ReprCall(op, 0, Repr, FALSE, 0, Ret(Now, 0))

\* handler.reprSample
ReadReprSample == ReadRepr("reprSample")

\* handler.reprSampleSize
ReadReprSampleSize == ReadRepr("reprSampleSize")

\* handler.reprSampleSize = x (__init__.py, lines 232-235)
SetReprSampleSize ==
    /\ Len(handles) >= ProfiledHandle
    /\ \E x \in ReprSampleSizes :
           \E S \in ReprChoices(x) :
               ReprRan("setReprSampleSize", x, [Repr EXCEPT !.reprSampleSize = x], x,
                       Sample(Now, ProfiledHandle, S))

SetThreshold(name) ==
    \E v \in ThresholdValues[name] :
        ReprCall(name, v, ThresholdSetter(Repr, name, v), FALSE, 0, Ret(Now, 0))

\* handler.outlierTailProportion = v
SetOutlierTailProportion == SetThreshold("outlierTailProportion")

\* handler.maxNCats = v
SetMaxNCats == SetThreshold("maxNCats")

\* handler.minProportionByMaxNCats = v
SetMinProportionByMaxNCats == SetThreshold("minProportionByMaxNCats")

\* ------------------------------------------------------- specifications

Transforms ==
    \/ GenericTransform
    \/ Select
    \/ Sql
    \/ Fillna
    \/ Prep
    \/ Drop
    \/ Filter
    \/ WithColumn
    \/ GetItem

\* Every operation.
Next ==
    \/ Open
    \/ Transforms
    \/ SubsetCall
    \/ FilterByPartitionKeysCall
    \/ SplitCall
    \/ SampleCall
    \/ PieceADFCall
    \/ PiecePandasDFCall
    \/ SetAlias
    \/ Lose
    \/ SetMinNonNullProportion
    \/ SetColumnMinNonNullProportion
    \/ SuffNonNullCall
    \/ SetOutlierTailProportion
    \/ SetMaxNCats
    \/ SetMinProportionByMaxNCats
    \/ ReadReprSample
    \/ ReadReprSampleSize
    \/ SetReprSampleSize
    \/ RaceLook
    \/ RaceTake
    \/ RaceInsert
    \/ RaceTest
    \/ RaceDiscover
    \/ RaceLoad
    \/ RaceCount
    \/ RaceFinish

Spec == Init /\ [][Next]_vars

\* Opening and transforming.
NextTransform == Open \/ Transforms

SpecTransform == Init /\ [][NextTransform]_vars

\* Opening, transforming and subsetting.
NextSubset ==
    \/ Open
    \/ Transforms
    \/ SubsetCall
    \/ FilterByPartitionKeysCall
    \/ SplitCall

SpecSubset == Init /\ [][NextSubset]_vars

\* Opening, filtering and selecting, and sampling.
NextSample ==
    \/ Open
    \/ Select
    \/ Filter
    \/ SampleCall
    \/ Lose

SpecSample == Init /\ [][NextSample]_vars

\* Threshold changes and suffNonNull calls on one handler.
NextProfile ==
    \/ SetMinNonNullProportion
    \/ SetColumnMinNonNullProportion
    \/ SuffNonNullCall

SpecProfile == Init /\ [][NextProfile]_vars

\* Opening, filtering and filling, and reading single partitions.
NextPiece ==
    \/ Open
    \/ Filter
    \/ Fillna
    \/ PieceADFCall

SpecPiece == Init /\ [][NextPiece]_vars

\* Opening, transforming with functions of the caller, and reading single
\* partitions as handles and as tables.
NextRaising ==
    \/ Open
    \/ GenericTransform
    \/ PieceADFCall
    \/ PiecePandasDFCall

SpecRaising == Init /\ [][NextRaising]_vars

\* Opening, transforming with functions of the caller, and sampling.
NextSampleReplay ==
    \/ Open
    \/ GenericTransform
    \/ SampleCall
    \/ Lose

SpecSampleReplay == Init /\ [][NextSampleReplay]_vars

\* Opening, naming and querying.
NextSql ==
    \/ Open
    \/ SetAlias
    \/ Sql

SpecSql == Init /\ [][NextSql]_vars

\* Constructions by concurrent threads, interleaved statement by
\* statement.
NextRace ==
    \/ RaceLook
    \/ RaceTake
    \/ RaceInsert
    \/ RaceTest
    \/ RaceDiscover
    \/ RaceLoad
    \/ RaceCount
    \/ RaceFinish

SpecRace == Init /\ [][NextRace]_vars

\* Opening, threshold changes, suffNonNull calls and the representative
\* sample of the handler opened first.
NextRepr ==
    \/ Open
    \/ SetMinNonNullProportion
    \/ SuffNonNullCall
    \/ SetOutlierTailProportion
    \/ SetMaxNCats
    \/ SetMinProportionByMaxNCats
    \/ ReadReprSample
    \/ ReadReprSampleSize
    \/ SetReprSampleSize

SpecRepr == Init /\ [][NextRepr]_vars

\* ------------------------------------------------------------ properties

\* The operations that go through transform().
TransformOps ==
    {"transform", "select", "sql", "fillna", "prep", "drop", "filter",
     "withColumn", "getitem"}

\* The step is a call of one of ops that returned.
Returned(ops) ==
    /\ nCalls' = nCalls + 1
    /\ last'.at = nCalls'
    /\ last'.op \in ops
    /\ ~last'.raised

\* The least k with k >= sqrt(n / r) * p.
CeilSqrtOf(n, r, p) ==
    CHOOSE k \in 0..(n * p) :
        k * k * r >= n * p * p /\ \A j \in 0..(k - 1) : j * j * r < n * p * p

\* C1: sample(n) reads exactly min(P, K) distinct partitions, all among the
\* sub-paths of the handle, where P is its partition count, R its row
\* count and K is max(minNPieces, ceil(sqrt(n / R) * P)), reduced to
\* maxNPieces when a cap is given; minNPieces left out is
\* min(reprSampleMinNPieces, P).
C1_SampleReadsMinPK ==
    last.op = "sample" =>
        LET self == handles[last.src]
            n == last.args[1]
            floor == IF last.args[2] = {} THEN Min(ReprSampleMinNPieces, self.nPieces)
                     ELSE CHOOSE m \in last.args[2] : TRUE
            cap == last.args[3]
            k == Max(floor, CeilSqrtOf(n, NRows(Now, self), self.nPieces))
        IN  /\ last.read \subseteq self.pieceSubPaths
            /\ Cardinality(last.read) =
                   Min(self.nPieces, IF cap # 0 THEN Min(k, cap) ELSE k)

\* A sample of a handle of three partitions with no floor and no cap, for
\* which the square-root rule picks two of them.
C1_Witness ==
    /\ last.op = "sample"
    /\ last.args[2] = {0}
    /\ last.args[3] = 0
    /\ handles[last.src].nPieces = 3
    /\ Cardinality(last.read) = 2
    /\ Len(last.results) = 2

\* The partitions of the source that result handle j of the last call
\* holds: its files, traced back through the copies the call made.
PartsOf(j) ==
    IF j = last.src THEN handles[j].piecePaths
    ELSE {IF \E c \in last.copied : c.to = q
          THEN (CHOOSE c \in last.copied : c.to = q).from
          ELSE q : q \in handles[j].piecePaths}

\* C2 as stated: for every handle and every non-trivial weight tuple,
\* split returns one handle per weight; their partition sets are pairwise
\* disjoint, their union is the partition set of the source, and their
\* sizes are the differences of round(cumulative normalised weight * P).
C2_SplitPartitions ==
    (last.op = "split" /\ ~last.raised /\ last.args[1] \notin {<<>>, <<1>>}) =>
        LET weights == last.args[1]
            self == handles[last.src]
            total == SumTo(weights, Len(weights))
            at(k) == IF k = 0 THEN 0
                     ELSE RoundHalfEven(SumTo(weights, k) * self.nPieces, total)
        IN  /\ Len(last.results) = Len(weights)
            /\ \A a, b \in 1..Len(last.results) :
                   a # b => PartsOf(last.results[a]) \cap PartsOf(last.results[b]) = {}
            /\ UNION {PartsOf(last.results[k]) : k \in 1..Len(last.results)}
                   = self.piecePaths
            /\ \A k \in 1..Len(last.results) :
                   Cardinality(PartsOf(last.results[k])) = at(k) - at(k - 1)

\* C3: _subset called with the full set of sub-paths of the handle returns
\* the very same handle, copies no file and constructs nothing.
C3_SubsetOfAllIsSelf ==
    [][(Returned({"_subset"}) /\ last'.args[1] = handles[last'.src].pieceSubPaths) =>
        /\ last'.res = last'.src
        /\ last'.copied = {}
        /\ last'.ctors = <<>>
        /\ files' = files
        /\ handles' = handles
        /\ CACHE' = CACHE]_vars

\* _subset with the full set of a handle of several partitions.
C3_Witness ==
    /\ last.op = "_subset"
    /\ last.args[1] = handles[last.src].pieceSubPaths
    /\ handles[last.src].nPieces > 1
    /\ last.res = last.src

\* The step constructs one new handle with the chains of the source.
NewWithChains ==
    /\ Len(last'.ctors) = 1
    /\ last'.res = Len(handles) + 1
    /\ Len(handles') = Len(handles) + 1
    /\ handles'[last'.res].sparkT = handles[last'.src].sparkT
    /\ handles'[last'.res].pandasT = handles[last'.src].pandasT

\* The step copies exactly the requested partition files of the source
\* into a directory that did not exist and constructs over it.
CopiesToFresh ==
    LET dir == last'.ctors[1].path
    IN  /\ StartsWith(dir, TmpDirPath \o <<"/">>)
        /\ ~PathExists(files, dir)
        /\ last'.copied = {[from |-> Join(handles[last'.src].path, q),
                            to |-> Join(dir, q)] : q \in last'.args[1]}
        /\ \A c \in last'.copied : c.from \in files
        /\ files' = files \cup {c.to : c \in last'.copied}

\* C4 as stated: for any requested set that is not the full set, _subset
\* copies exactly the selected files to a fresh temporary location and
\* returns a new handle over it with the chains of the source.
C4_SubsetCopies ==
    [][(Returned({"_subset"}) /\ last'.args[1] # handles[last'.src].pieceSubPaths) =>
        NewWithChains /\ CopiesToFresh]_vars

\* C4: for a requested set of two or more sub-paths that is not the full
\* set, _subset copies exactly the selected files to a fresh temporary
\* location and returns a new handle constructed over it; for a single
\* requested sub-path it copies nothing and returns a new handle
\* constructed over the path of that partition; either handle has both
\* chains of the source.  With no sub-path requested it returns the same
\* handle.
C4_SubsetCopiesSeveral ==
    [][(Returned({"_subset"}) /\ last'.args[1] # handles[last'.src].pieceSubPaths) =>
        IF last'.args[1] = {}
        THEN last'.res = last'.src /\ last'.ctors = <<>> /\ last'.copied = {}
             /\ files' = files
        ELSE IF Cardinality(last'.args[1]) = 1
        THEN /\ NewWithChains
             /\ last'.copied = {}
             /\ files' = files
             /\ \E q \in last'.args[1] :
                    last'.ctors[1].path = Join(handles[last'.src].path, q)
        ELSE NewWithChains /\ CopiesToFresh]_vars

\* _subset with two of the three partitions of a transformed handle.
C4_Witness ==
    /\ last.op = "_subset"
    /\ Cardinality(last.args[1]) = 2
    /\ handles[last.src].nPieces = 3
    /\ handles[last.src].sparkT # <<>>
    /\ Cardinality(last.copied) = 2
    /\ last.res = Len(handles)

\* The sub-paths of the source the criteria of the last call keep.
Matching ==
    Satisfying(handles[last.src], FilterCriteria(last.args[1], last.args[2]))

\* The criteria of the last call are well formed and at least one names a
\* partition key.
Filtering ==
    /\ last.op = "filterByPartitionKeys"
    /\ FilterCriteria(last.args[1], last.args[2]) # {}
    /\ \A c \in FilterCriteria(last.args[1], last.args[2]) : c.len \in {2, 3}

C7_TransformKeepsPartitions ==
    (last.op \in TransformOps /\ ~last.raised) =>
        /\ handles[last.res].pieceSubPaths = handles[last.src].pieceSubPaths
        /\ handles[last.res].nPieces = handles[last.src].nPieces

\* C8 as stated: a construction discovers and loads only when the path is
\* absent from the registry or reCache is set.
C8_DiscoveryOnlyWhenAbsentOrForced ==
    \A k \in 1..Len(last.ctors) :
        last.ctors[k].discovered <=> (~last.ctors[k].present \/ last.ctors[k].reCache)

\* C8: a construction, in an open or inside a transform, discovers and
\* loads exactly when reCache is set or the registry holds no loaded entry
\* for the path: none at all, or the empty one a failed discovery left;
\* every other construction reuses the registered entry.
C8_DiscoveryOnlyWhenNotLoadedOrForced ==
    \A k \in 1..Len(last.ctors) :
        last.ctors[k].discovered <=>
            (~last.ctors[k].present \/ last.ctors[k].empty \/ last.ctors[k].reCache)

\* An open without reCache that finds the empty entry a failed discovery
\* left, loads and returns a handle.
C8_Witness ==
    /\ last.op = "open"
    /\ last.ctors[1].empty
    /\ ~last.ctors[1].reCache
    /\ last.ctors[1].discovered
    /\ ~last.raised
    /\ last.res = Len(handles)

\* The step is a profiling call op.
Profiled(op) ==
    nCalls' = nCalls + 1 /\ lastProfiled'.at = nCalls' /\ lastProfiled'.op = op

\* C9: setting minNonNullProportion to a value different from the current
\* one empties the cache of suffNonNull flags, so that the next
\* suffNonNull of any column evaluates nonNullProportion and returns the
\* flag under the threshold in force; setting it to the current value
\* leaves threshold and cache as they were.
C9_SetterEmptiesFlags ==
    [][/\ Profiled("minNonNullProportion") =>
            IF lastProfiled'.value # minNonNullProportion["default"]
            THEN /\ suffNonNull' = << >>
                 /\ minNonNullProportion'["default"] = lastProfiled'.value
            ELSE /\ suffNonNull' = suffNonNull
                 /\ minNonNullProportion' = minNonNullProportion
       /\ (Profiled("suffNonNull") /\ suffNonNull = << >>) =>
            /\ lastProfiled'.computed
            /\ lastProfiled'.result =
                   (NonNullProportion(lastProfiled'.col)
                        >= ThresholdOf(minNonNullProportion, lastProfiled'.col))]_vars

\* The setter called with a new value on a handler that holds flags.
C9_Witness ==
    /\ lastProfiled.op = "minNonNullProportion"
    /\ lastProfiled.value # lastProfiled.before.m["default"]
    /\ DOMAIN lastProfiled.before.flags = Cols
    /\ suffNonNull = << >>

\* C10: after any sequence of threshold changes, of the default or of one
\* column, and suffNonNull calls, suffNonNull(col) returns whether
\* nonNullProportion(col) is at least the threshold in force for col; it
\* reuses the cached flag only while the threshold recorded for the column
\* is the one in force, and otherwise recomputes and records that
\* threshold.
C10_SuffNonNullUnderThresholdInForce ==
    lastProfiled.op = "suffNonNull" =>
        LET col == lastProfiled.col
            before == lastProfiled.before
            threshold == ThresholdOf(minNonNullProportion, col)
        IN  /\ lastProfiled.result = (NonNullProportion(col) >= threshold)
            /\ suffNonNull[col] = lastProfiled.result
            /\ suffNonNullProportionThreshold[col] = threshold
            /\ ~lastProfiled.computed =>
                   /\ col \in DOMAIN before.flags
                   /\ col \in DOMAIN before.thresholds
                   /\ before.thresholds[col] = threshold
            /\ (col \in DOMAIN before.thresholds /\ before.thresholds[col] # threshold)
                   => lastProfiled.computed

\* suffNonNull of a column whose cached flag was computed under another
\* threshold, set for that column since, and is no longer right.
C10_Witness ==
    /\ lastProfiled.op = "suffNonNull"
    /\ lastProfiled.col \in DOMAIN minNonNullProportion
    /\ lastProfiled.col \in DOMAIN lastProfiled.before.flags
    /\ lastProfiled.before.flags[lastProfiled.col] # lastProfiled.result
    /\ lastProfiled.computed

\* C11: select('*'), or select with no expressions, returns a handle with
\* the row count and the schema of the handle it was applied to, and with
\* that handle's cached row count, not a reset one.
C11_SelectStarKeepsRowsAndSchema ==
    [][Returned({"select"}) /\ last'.args[1] = <<"selectStar">> =>
          /\ handles'[last'.res].nRows = handles[last'.src].nRows
          /\ NRows(Now, handles'[last'.res]) = NRows(Now, handles[last'.src])
          /\ FrameRows(files, handles'[last'.res].sparkDF)
                 = FrameRows(files, handles[last'.src].sparkDF)
          /\ Schema(handles'[last'.res].sparkDF) = Schema(handles[last'.src].sparkDF)]_vars

\* select('*') returned on a handle from which y was dropped: the new
\* handle has the cached row count of that handle and no column y.
C11_Witness ==
    /\ last.op = "select"
    /\ last.args[1] = <<"selectStar">>
    /\ last.res # 0
    /\ handles[last.src].nRows # {}
    /\ handles[last.res].nRows = handles[last.src].nRows
    /\ Schema(handles[last.src].sparkDF) = {"x"}
    /\ Schema(handles[last.res].sparkDF) = {"x"}

\* The operations that are recorded in the engine-native chain alone.
EngineOnlyKinds == {"select", "selectStar", "sql", "sqlStar", "filter", "withColumn"}

\* C12 as stated: the partition frames a sample draws from hold no
\* operation that is recorded in the engine-native chain alone; only the
\* local chain was replayed on them.
C12_SampleReplaysLocalChainOnly ==
    last.op = "sample" =>
        \A k \in 1..Len(last.results) :
            LET ops == handles[last.results[k]].sparkDF.ops
            IN  /\ \A m \in 1..Len(ops) : ops[m] \notin EngineOnlyKinds
                /\ ops = handles[last.src].pandasT

\* C12 as the code has it: every partition handle a sample draws from has
\* the engine-native chain of the sampled handle, and its frame is that
\* whole chain replayed over the partition's own base frame.
C12_SampleReplaysEngineChain ==
    last.op = "sample" =>
        \A k \in 1..Len(last.results) :
            LET piece == handles[last.results[k]]
            IN  /\ piece.sparkT = handles[last.src].sparkT
                /\ piece.sparkDF.base = piece.initDF.base
                /\ piece.sparkDF.ops = handles[last.src].sparkT

\* A sample of a filtered handle that drew from two partitions, each with
\* the filter replayed on it.
C12_Witness ==
    /\ last.op = "sample"
    /\ ~last.raised
    /\ handles[last.src].sparkT = <<"filter">>
    /\ handles[last.src].pandasT = <<>>
    /\ Len(last.results) = 2
    /\ \A k \in 1..2 : handles[last.results[k]].sparkDF.ops = <<"filter">>

\* The chosen partitions q of a sample of self that load in state st: the
\* ones whose handle is in the partition cache, when every transform of
\* the chain can be called and none raises on the frame of the partition,
\* and else the ones whose handle is self, or that the registry or the
\* storage still has and on whose frame no transform of the chain raises.
Loadable(st, self, chosen) ==
    {q \in chosen :
        IF q \in DOMAIN st.pieceADFs[self.pc]
        THEN /\ FirstTransformer(self.sparkT) = 0
             /\ FirstRaising(st.handles[st.pieceADFs[self.pc][q]].initDF, self.sparkT) = 0
        ELSE \/ self.nPieces = 1 /\ ~self.dateOnly
             \/ /\ \/ Reuses(st.CACHE, Join(self.path, q), FALSE)
                   \/ PathExists(st.files, Join(self.path, q))
                /\ FirstRaising(SrcFrame(Join(self.path, q)), self.sparkT) = 0}

\* C13: a chosen partition of a sample that fails to load is skipped; when
\* at least one chosen partition loads the sample returns, and it is drawn
\* from exactly the partitions that loaded, one handle for each.
C13_SampleSkipsFailedPartitions ==
    [][nCalls' = nCalls + 1 /\ last'.at = nCalls' /\ last'.op = "sample" =>
          LET self == handles[last'.src]
              ok == Loadable(Now, self, last'.read)
          IN  /\ ok # {} => ~last'.raised
              /\ Len(last'.results) = Cardinality(ok)
              /\ {last'.results[k] : k \in 1..Len(last'.results)}
                     = {pieceADFs'[self.pc][q] : q \in ok}]_vars

\* A sample that chose three partitions of which one had gone from storage:
\* it returned, drawn from the two others.
C13_Witness ==
    /\ last.op = "sample"
    /\ ~last.raised
    /\ Cardinality(last.read) = 3
    /\ Len(last.results) = 2
    /\ \E q \in last.read :
           /\ ~PathExists(files, Join(handles[last.src].path, q))
           /\ q \notin DOMAIN pieceADFs[handles[last.src].pc]

\* The setters of the four profiling thresholds.
ThresholdSetters ==
    {"minNonNullProportion", "outlierTailProportion", "maxNCats", "minProportionByMaxNCats"}

\* The step is a call of a threshold setter that changes the threshold.
ThresholdChanged ==
    /\ nCalls' = nCalls + 1
    /\ lastProfiled'.at = nCalls'
    /\ lastProfiled'.op \in ThresholdSetters
    /\ \/ minNonNullProportion' # minNonNullProportion
       \/ otherThresholds' # otherThresholds

\* C14 as stated: a threshold changed through its setter invalidates the
\* cached representative sample: after the setter none is cached, or it was
\* rebuilt in the call.
C14_ThresholdChangeInvalidatesSample ==
    [][ThresholdChanged /\ reprSample # {} =>
          reprSample' = {} \/ lastProfiled'.computed]_vars

\* C14 as the code has it: no threshold setter touches the cached
\* representative sample or the recorded sample size, and none draws a
\* sample; the setter of minNonNullProportion empties the cached
\* suffNonNull flags and the other three leave them too.
C14_ThresholdChangeKeepsSample ==
    [][ThresholdChanged =>
          /\ reprSample' = reprSample
          /\ reprSampleSize' = reprSampleSize
          /\ ~lastProfiled'.computed
          /\ UNCHANGED dataVars
          /\ suffNonNull' = IF lastProfiled'.op = "minNonNullProportion" THEN << >>
                            ELSE suffNonNull]_vars

\* maxNCats was changed on a handler with a cached representative sample,
\* which is still cached.
C14_Witness ==
    /\ lastProfiled.op = "maxNCats"
    /\ otherThresholds.maxNCats # DefaultThresholds.maxNCats
    /\ reprSample # {}
    /\ \E adf \in reprSample : adf.nRows = reprSampleSize /\ Len(adf.pieces) = 3

\* C15 as stated: a handle returned by a transform has the cached row
\* count of its parent only when its frame has as many rows as the parent's,
\* and the handle filter returns has no cached row count.
C15_RowCountInheritedOnlyWhenPreserved ==
    (last.op \in TransformOps /\ ~last.raised) =>
        /\ (handles[last.res].nRows # {} /\ handles[last.res].nRows = handles[last.src].nRows)
               => FrameRows(files, handles[last.res].sparkDF)
                      = FrameRows(files, handles[last.src].sparkDF)
        /\ last.op = "filter" => handles[last.res].nRows = {}

\* The methods that may assign the representative sample.
ReprOps == {"reprSample", "reprSampleSize", "setReprSampleSize"}

\* C16: reading reprSample or reprSampleSize assigns the representative
\* sample exactly when none is cached, and setting reprSampleSize always
\* does; after an assignment that completed a sample is cached, drawn from
\* the partitions the sample call loaded, the recorded sample size is the
\* row count of that sample, and the cached non-null proportions and
\* suffNonNull flags are empty.  A call that assigns nothing leaves the
\* sample and the caches as they were.
C16_AssignReprSample ==
    [][nCalls' = nCalls + 1 /\ lastProfiled'.at = nCalls' /\ lastProfiled'.op \in ReprOps =>
          /\ lastProfiled'.computed
                 = (lastProfiled'.op = "setReprSampleSize" \/ reprSample = {})
          /\ lastProfiled'.computed /\ ~last'.raised =>
                 /\ Cardinality(reprSample') = 1
                 /\ \A adf \in reprSample' :
                        /\ reprSampleSize' = adf.nRows
                        /\ adf.pieces = last'.results
                        /\ adf.nRows >= Len(adf.pieces)
                 /\ cachedNonNullProportion' = << >>
                 /\ suffNonNull' = << >>
          /\ ~lastProfiled'.computed =>
                 UNCHANGED <<reprSample, reprSampleSize, cachedNonNullProportion, suffNonNull>>]_vars

\* reprSampleSize was set to 1 on a handler that had a flag and a
\* proportion cached: the sample drawn has two rows, which is the size
\* recorded, and the caches are empty.
C16_Witness ==
    /\ lastProfiled.op = "setReprSampleSize"
    /\ lastProfiled.value = 1
    /\ lastProfiled.before.flags # << >>
    /\ reprSampleSize = 2
    /\ \E adf \in reprSample : adf.nRows = 2
    /\ suffNonNull = << >>
    /\ cachedNonNullProportion = << >>

\* Handle j is a dataset handle a caller holds: it was constructed over a
\* path opened by name (or over its directory), by an open or a transform.
UserHandle(j) == \E path \in OpenPaths : handles[j].path \in {path, Dirname(path)}

\* C17 as stated: no call made on another handle changes the chains or
\* the engine frame of a dataset handle a caller holds; the in-place
\* re-transform of _pieceADF touches handles of the partition cache only.
C17_DerivedCallsLeaveHandle ==
    [][\A j \in 1..Len(handles) :
           (UserHandle(j) /\ last'.src # j) =>
               /\ handles'[j].sparkT = handles[j].sparkT
               /\ handles'[j].pandasT = handles[j].pandasT
               /\ handles'[j].sparkDF = handles[j].sparkDF]_vars

\* C18 as stated: _pieceADF(p) on handle h returns, on a miss and on a hit
\* of the partition cache alike, a handle of one partition with the chains
\* of h whose frame is the whole engine-native chain of h replayed over
\* the base frame of the partition, whether the transforms of the chain
\* are callables or Transformer objects.
C18_PieceADFSameOnHitAndMiss ==
    last.op = "_pieceADF" =>
        /\ ~last.raised
        /\ handles[last.res].nPieces = 1
        /\ handles[last.res].sparkT = handles[last.src].sparkT
        /\ handles[last.res].pandasT = handles[last.src].pandasT
        /\ handles[last.res].sparkDF
               = [base |-> handles[last.res].initDF.base, ops |-> handles[last.src].sparkT]

\* What the operations ops make of the data they are applied to: the
\* columns they leave, how many of them remove rows and whether NULLs are
\* filled.
Effect(ops) ==
    [cols |-> SchemaAfter(SrcCols, ops),
     filters |-> Cardinality({k \in 1..Len(ops) : ops[k] = "filter"}),
     filled |-> \E k \in 1..Len(ops) : ops[k] = "fillna"]

\* The operations of the generic transform(), whose local counterpart the
\* caller supplies.
GenericKinds == {"transformT", "transformF"}

\* C19 as stated: for every handle made by the public transform
\* operations, the engine-native chain applied to the dataset and the
\* local chain applied to each partition have the same effect on the data.
C19_ChainsEquivalent ==
    \A j \in 1..Len(handles) :
        (\A k \in 1..Len(handles[j].sparkT) : handles[j].sparkT[k] \notin GenericKinds) =>
            \A q \in handles[j].pieceSubPaths :
                Effect(handles[j].sparkDF.ops) = Effect(PiecePandasDF(handles[j], q).ops)

\* The operations that record no local counterpart, and the ones that do.
GapOps == {"select", "sql", "filter", "withColumn"}

LocalOps == {"drop", "fillna", "prep"}

\* The handle returned has the engine-native chain of the source handle
\* and one entry more, and its local chain longer by more entries.
Extends(more) ==
    /\ Len(handles'[last'.res].sparkT) = Len(handles[last'.src].sparkT) + 1
    /\ SubSeq(handles'[last'.res].sparkT, 1, Len(handles[last'.src].sparkT))
           = handles[last'.src].sparkT
    /\ Len(handles'[last'.res].pandasT) = Len(handles[last'.src].pandasT) + more
    /\ SubSeq(handles'[last'.res].pandasT, 1, Len(handles[last'.src].pandasT))
           = handles[last'.src].pandasT

\* C20 as stated: list indexing, sql, select, filter and withColumn extend
\* the engine-native chain by one entry and leave the local chain as it
\* is; drop, fillna and prep, and only they, extend the local chain too.
C20_GapsIncludeListIndexing ==
    [][/\ Returned(GapOps \cup {"getitem"}) => Extends(0)
       /\ Returned(LocalOps) => Extends(1)]_vars

\* C20 as the code has it: sql, select, filter and withColumn extend the
\* engine-native chain by one entry and leave the local chain as it is;
\* list indexing, drop, fillna and prep extend both chains by one entry.
C20_GapsAndLocalCounterparts ==
    [][/\ Returned(GapOps) => Extends(0)
       /\ Returned(LocalOps \cup {"getitem"}) => Extends(1)]_vars

\* List indexing on a filtered handle returned a handle whose engine-native
\* chain is the filter and the projection and whose local chain is the
\* projection alone.
C20_Witness ==
    /\ last.op = "getitem"
    /\ ~last.raised
    /\ handles[last.src].sparkT = <<"filter">>
    /\ handles[last.src].pandasT = <<>>
    /\ handles[last.res].sparkT = <<"filter", "getitem">>
    /\ handles[last.res].pandasT = <<"getitem">>

\* ------------------------------------------------ failed constructions

\* The step is an open: a construction by the caller.
Opened ==
    nCalls' = nCalls + 1 /\ last'.at = nCalls' /\ last'.op = "open"

\* The registry holds for path an entry without a loaded engine frame or
\* without a row count.
Incomplete(path) ==
    path \in DOMAIN CACHE /\ CACHE[path].stage # "full"

\* C21 as stated: a construction whose discovery or load fails raises, and
\* an open without reCache of a path whose registry entry lacks the engine
\* frame or the row count returns no handle built from it: it reloads or
\* fails the assertion of line 77.
C21_IncompleteEntryReloadsOrAsserts ==
    [][Opened =>
        /\ (last'.ctors[1].discovered /\ CACHE'[last'.args[1]].stage # "full")
               => (last'.raised /\ last'.res = 0)
        /\ (~last'.args[2] /\ Incomplete(last'.args[1])) =>
               \/ last'.ctors[1].discovered
               \/ last'.raised /\ last'.exc = "AssertionError"]_vars

\* C21: a construction whose discovery or load fails raises and returns no
\* handle; an open that returns a handle leaves and uses a fully loaded
\* entry; and an open without reCache of a path whose entry is incomplete
\* reloads when the entry is empty, fails the assertion of line 77 when the
\* entry has no engine frame, and fails on the read of the row count when
\* the entry has the frame and no row count.
C21_IncompleteEntryNeverYieldsHandle ==
    [][Opened =>
        /\ (last'.ctors[1].discovered /\ CACHE'[last'.args[1]].stage # "full")
               => (last'.raised /\ last'.res = 0)
        /\ ~last'.raised => CACHE'[last'.args[1]].stage = "full"
        /\ (~last'.args[2] /\ Incomplete(last'.args[1])) =>
               \/ /\ CACHE[last'.args[1]].stage = "empty"
                  /\ last'.ctors[1].discovered
               \/ /\ CACHE[last'.args[1]].stage = "arrow"
                  /\ last'.raised /\ last'.exc = "AssertionError"
                  /\ CACHE' = CACHE
               \/ /\ CACHE[last'.args[1]].stage = "spark"
                  /\ last'.raised /\ last'.exc = "AttributeError"
                  /\ CACHE' = CACHE]_vars

\* An open without reCache found the entry a failed row count left, with
\* the engine frame and without the row count, and raised on it.
C21_Witness ==
    /\ last.op = "open"
    /\ ~last.args[2]
    /\ last.ctors[1].present
    /\ ~last.ctors[1].discovered
    /\ CACHE[last.args[1]].stage = "spark"
    /\ last.raised
    /\ last.exc = "AttributeError"

\* --------------------------------------------------- raising transforms

\* The step is a call of op.
Called(op) ==
    nCalls' = nCalls + 1 /\ last'.at = nCalls' /\ last'.op = op

\* The call of the step raised what a transform raised, returned no handle
\* and left every handle as it was, none added.
ReRaised ==
    /\ last'.raised
    /\ last'.exc = "TransformError"
    /\ last'.res = 0
    /\ handles' = handles

\* The step is a call of _pieceADF that builds the handle of a partition:
\* the partition is not in the dict and is not the whole of the handle.
BuildsPiece ==
    /\ Called("_pieceADF")
    /\ last'.args[1] \notin DOMAIN pieceADFs[handles[last'.src].pc]
    /\ (handles[last'.src].dateOnly \/ handles[last'.src].nPieces > 1)

\* C22: when an additional engine-native transform raises in transform(),
\* when a transform of the chain raises while the constructor replays it on
\* the frame of a partition, and when a local transform raises in
\* _piecePandasDF on the table it read, the call raises the same, returns
\* no handle, and leaves the handle it was made on, chains and engine
\* frame, and every other handle as they were; a failed construction
\* registers no partition handle.
C22_TransformFailureReRaised ==
    [][/\ (Called("transform")
           /\ FirstRaising(handles[last'.src].sparkDF, last'.args[1]) # 0) => ReRaised
       /\ (BuildsPiece
           /\ FirstRaising(SrcFrame(Join(handles[last'.src].path, last'.args[1])),
                           handles[last'.src].sparkT) # 0)
               => (ReRaised /\ pieceADFs' = pieceADFs)
       /\ (Called("_piecePandasDF")
           /\ PathExists(files, Join(handles[last'.src].path, last'.args[1]))
           /\ FirstRaising(SrcFrame(Join(handles[last'.src].path, last'.args[1])),
                           handles[last'.src].pandasT) # 0) => ReRaised]_vars

\* A handle whose chain holds a function that raises on the frame of a
\* single partition was asked for a partition: the constructor loaded the
\* partition, raised in the replay, and no handle was added.
C22_Witness ==
    /\ last.op = "_pieceADF"
    /\ last.raised
    /\ last.exc = "TransformError"
    /\ Len(last.ctors) = 1
    /\ last.ctors[1].discovered
    /\ handles[last.src].sparkT = <<"rootF">>
    /\ Len(handles) = 2

\* transform() was called with a function that raised on the frame of the
\* handle.
C22_WitnessTransform ==
    /\ last.op = "transform"
    /\ last.raised
    /\ last.exc = "TransformError"
    /\ last.ctors = <<>>

\* _piecePandasDF was called on a handle whose local chain holds a
\* function that raised.
C22_WitnessLocal ==
    /\ last.op = "_piecePandasDF"
    /\ last.raised
    /\ last.exc = "TransformError"
    /\ handles[last.src].pandasT = <<"rootF">>

\* ------------------------------------------------ filterByPartitionKeys

\* The places where sub has a segment col=...: at its start or right
\* after a '/'.
KeySegments(col, sub) ==
    {k \in Occurrences(sub, col \o <<"=">>) : k = 1 \/ sub[k - 1] = "/"}

\* The value of the key col in sub: what follows col= in its segment, up
\* to the next '/' or the end.
SegmentValue(col, sub) ==
    LET k == CHOOSE x \in KeySegments(col, sub) : TRUE
        b == k + Len(col) + 1
        ends == {j \in b..Len(sub) : sub[j] = "/"}
    IN  SubSeq(sub, b, IF ends = {} THEN Len(sub)
                       ELSE (CHOOSE j \in ends : \A m \in ends : j <= m) - 1)

\* The value v is in the given set, or within the given bounds, both
\* included, compared as strings.
Within(c, v) ==
    IF c.len = 2 THEN v \in c.inSet
    ELSE /\ \A f \in c.from : f = v \/ StrLess(f, v)
         /\ \A t \in c.to : v = t \/ StrLess(v, t)

\* The criteria given whose column is a partition key of the handle.
OnKeys(self, crits) ==
    {c \in {crits[k] : k \in 1..Len(crits)} :
        \A q \in self.pieceSubPaths : KeySegments(c.col, q) # {}}

\* The sub-paths of the handle that meet every criterion on a key.
Meeting(self, crits) ==
    {q \in self.pieceSubPaths :
        \A c \in OnKeys(self, crits) : Within(c, SegmentValue(c.col, q))}

\* The call of the step did what _subset does for the sub-paths req.
Delegated(req) ==
    /\ last'.raised = Subset(Now, last'.src, req).raised
    /\ last'.res = Subset(Now, last'.src, req).res
    /\ last'.copied = Subset(Now, last'.src, req).copied
    /\ handles' = Subset(Now, last'.src, req).st.handles

\* C23 as stated: for well-formed criteria, filterByPartitionKeys returns
\* the handle itself when no criterion is on a partition key, and else
\* hands to _subset exactly the sub-paths whose key values meet every
\* criterion on a partition key (in the set, or within the bounds, as
\* strings), nothing being handed on when no sub-path does.
C23_FilterMeetsEveryCriterion ==
    [][(/\ Called("filterByPartitionKeys")
        /\ \A k \in 1..Len(last'.args[1]) : last'.args[1][k].len \in {2, 3}) =>
            IF OnKeys(handles[last'.src], last'.args[1]) = {}
            THEN ~last'.raised /\ last'.res = last'.src /\ handles' = handles
            ELSE IF Meeting(handles[last'.src], last'.args[1]) = {}
            THEN last'.raised /\ handles' = handles
            ELSE Delegated(Meeting(handles[last'.src], last'.args[1]))]_vars

\* ------------------------------------------- the registry under threads

\* C24: the registry is not synchronized.  A construction finds an entry
\* that is not fully populated, fails, or discovers and loads a path that
\* another construction discovers and loads too, only when another thread
\* was constructing for the same path while it ran; a construction that
\* met no other discovers and loads exactly when it finds the path absent,
\* and returns a handle.  A construction discovers and loads only when it
\* found the path absent or its entry empty.
C24_RegistryRaces ==
    /\ \A e \in finished :
           /\ e.discovered => e.found \in {"absent", "empty"}
           /\ e.raised => e.overlap
           /\ e.found \in {"empty", "arrow", "spark"} => e.overlap
           /\ ~e.overlap => (e.discovered <=> e.found = "absent")
    /\ \A a, b \in finished :
           (a # b /\ a.path = b.path /\ a.discovered /\ b.discovered)
               => (a.overlap /\ b.overlap)

\* The thread that inserted the entry of a path found it, at line 76, with
\* what the other thread had discovered into it, and failed the assertion
\* of line 77.
C24_WitnessInserter ==
    \E e \in finished : e.found = "absent" /\ ~e.discovered /\ e.raised

\* Two threads constructed for one uncached path and each inserted its own
\* entry, discovered and loaded; and for another path a thread found the
\* entry the other thread had inserted and discovered but not yet loaded,
\* and failed the assertion of line 77.
C24_Witness ==
    /\ \E a, b \in finished :
           /\ a.t # b.t
           /\ a.path = b.path
           /\ a.found = "absent" /\ b.found = "absent"
           /\ a.discovered /\ b.discovered
           /\ ~a.raised /\ ~b.raised
    /\ \E c \in finished :
           /\ c.found = "arrow"
           /\ ~c.discovered
           /\ c.raised

\* A thread found the entry the other thread had just inserted, still
\* empty, and both discovered and loaded into it.
C24_WitnessEmpty ==
    \E a, b \in finished :
        /\ a.t # b.t
        /\ a.path = b.path
        /\ a.found = "absent" /\ b.found = "empty"
        /\ a.discovered /\ b.discovered
        /\ ~a.raised /\ ~b.raised

\* ------------------------------------------------------------------ sql

\* C25: sql(query, tempAlias) leaves the alias of the handle as it was
\* before the call, when it returns a new handle and when it raises; a
\* query that does not start with select is rejected, no handle being
\* made.
C25_SqlRestoresAlias ==
    [][Called("sql") =>
        /\ handles'[last'.src].alias = handles[last'.src].alias
        /\ handles'[last'.src] = handles[last'.src]
        /\ ~last'.args[3].starts =>
               (last'.raised /\ last'.res = 0 /\ handles' = handles)
        /\ ~last'.raised =>
               (last'.res = Len(handles') /\ Len(handles') = Len(handles) + 1)]_vars

\* sql() raised on a handle whose alias had been set, for a query the
\* engine rejects, and the handle has the alias it had.
C25_Witness ==
    /\ last.op = "sql"
    /\ last.raised
    /\ last.exc = "SqlError"
    /\ handles[last.src].alias = {"a"}

\* sql() returned a new handle for a handle whose alias had been set.
C25_WitnessReturned ==
    /\ last.op = "sql"
    /\ ~last.raised
    /\ handles[last.src].alias = {"a"}

\* C26 as stated: when sql() decides that the query does not preserve the
\* cache (it has where, join or union, or no select * over the alias) and
\* is given no inheritCache argument, the handle it returns does not
\* inherit the profiling cache of the handle it was called on.
C26_SqlNoInheritanceWhenNotPreserving ==
    [][(Returned({"sql"}) /\ ~SqlInheritCache(last'.args[3]))
           => ~handles'[last'.res].inherited]_vars

\* ----------------------------------------------- sample, nothing loaded

\* C27: when none of the partitions chosen by sample() loads, because its
\* file is gone or because a transform of the chain raises when replayed
\* on it, sample raises and returns nothing; and each chosen partition is
\* tried once: the call constructs at most one handle for each, none for a
\* partition it did not choose and none twice.
C27_SampleRaisesWhenNothingLoads ==
    [][Called("sample") =>
        /\ Loadable(Now, handles[last'.src], last'.read) = {} =>
               (last'.raised /\ last'.res = 0 /\ last'.results = <<>>)
        /\ Len(last'.ctors) <= Cardinality(last'.read)
        /\ \A j, k \in 1..Len(last'.ctors) :
               j # k => last'.ctors[j].path # last'.ctors[k].path
        /\ \A k \in 1..Len(last'.ctors) :
               \E q \in last'.read :
                   last'.ctors[k].path = Join(handles[last'.src].path, q)]_vars

\* A sample chose three partitions of a handle whose chain holds a
\* function that raises on the frame of a single partition: each was
\* loaded and failed in the replay, one construction each, and the sample
\* raised.
C27_Witness ==
    /\ last.op = "sample"
    /\ last.raised
    /\ Cardinality(last.read) = 3
    /\ last.results = <<>>
    /\ Len(last.ctors) = 3
    /\ \A k \in 1..3 : last.ctors[k].raised /\ last.ctors[k].discovered
    /\ handles[last.src].sparkT = <<"rootF">>

\* A sample chose the one partition whose file had gone from storage, and
\* raised.
C27_WitnessLost ==
    /\ last.op = "sample"
    /\ last.raised
    /\ Cardinality(last.read) = 1
    /\ Len(last.ctors) = 1
    /\ \E q \in last.read : ~PathExists(files, Join(handles[last.src].path, q))

====
